---------------------------- MODULE Spec2Model ----------------------------
(***************************************************************************)
(* dbt-fusion-otel-forwarder: the Decoder (app/decoder.go) and the run     *)
(* lifecycle of the wrapper (app/app.go).                                  *)
(*                                                                         *)
(* Strings.  A Go string is modelled as a sequence of symbols.  Text the   *)
(* program looks inside (decimal timestamps, hex identifiers, dotted       *)
(* attribute keys) is spelled symbol by symbol: "12" is <<"1","2">>, the   *)
(* key dbt.k is <<"dbt","k">>.  Text the program only compares is a single *)
(* symbol: <<"SpanStart">>.  The empty string is <<>>.                     *)
(*                                                                         *)
(* JSON.  A JSON value is a record [t, v] with t one of "string",          *)
(* "number", "object", "array"; an object is a function from keys to JSON  *)
(* values, as encoding/json produces a map[string]any.                     *)
(***************************************************************************)
EXTENDS Integers, Sequences, FiniteSets, TLC

(***************************************************************************)
(* Bounds of the model                                                     *)
(***************************************************************************)
\* lines handed to one Decoder over all its DecodeLines calls
MaxLines == 3
\* lines in one DecodeLines call
MaxBatch == 3
\* lines the wrapped command writes to the log file during a run
MaxFileLines == 2
\* capacity of the line queue (1000 in the program)
LinesCap == 1
\* buffered lines that trigger a flush (100 in the program)
FlushThreshold == 2
\* attempts of the Tailer to open the log file (30 in the program)
OpenAttempts == 2

EmptyStr == <<>>

Str(x) == <<x>>

JStr(s) == [t |-> "string", v |-> s]

JNum(n) == [t |-> "number", v |-> n]

JObj(f) == [t |-> "object", v |-> f]

JArr(s) == [t |-> "array", v |-> s]

\* the empty Go map / JSON object
EmptyMap == <<>>

(***************************************************************************)
(* Pure helpers of the Decoder                                             *)
(***************************************************************************)

\* func stringFrom(obj, key): the string under key, "" when absent or not a string
stringFrom(obj, key) ==
    IF key \in DOMAIN obj /\ obj[key].t = "string" THEN obj[key].v ELSE EmptyStr

\* v.(map[string]any) on obj[key]: ok is false when absent or not an object
objectFrom(obj, key) ==
    IF key \in DOMAIN obj /\ obj[key].t = "object"
    THEN [ok |-> TRUE, m |-> obj[key].v]
    ELSE [ok |-> FALSE, m |-> EmptyMap]

\* func getInt(obj, key): the number under key as int32, 0 when absent or not a number
getInt(obj, key) ==
    IF key \in DOMAIN obj /\ obj[key].t = "number" THEN obj[key].v ELSE 0

DigitSyms == <<"0", "1", "2", "3", "4", "5", "6", "7", "8", "9">>

IsDigit(c) == \E i \in 1..10 : DigitSyms[i] = c

DigitVal(c) == (CHOOSE i \in 1..10 : DigitSyms[i] = c) - 1

RECURSIVE ScanDigits(_, _, _)
\* the value of the leading run of decimal digits of s from position i on
ScanDigits(s, i, acc) ==
    IF i > Len(s) \/ ~IsDigit(s[i]) THEN acc
    ELSE ScanDigits(s, i + 1, acc * 10 + DigitVal(s[i]))

\* func parseNano(val, fallback): fmt.Sscan of an unsigned decimal; the
\* fallback when the text does not start with a digit
parseNano(val, fallback) ==
    IF Len(val) = 0 \/ ~IsDigit(val[1]) THEN fallback
    ELSE ScanDigits(val, 1, 0)

HexSyms == <<"0", "1", "2", "3", "4", "5", "6", "7", "8", "9",
             "a", "b", "c", "d", "e", "f">>

IsHex(c) == \E i \in 1..16 : HexSyms[i] = c

HexVal(c) == (CHOOSE i \in 1..16 : HexSyms[i] = c) - 1

\* func decodeHex(s): the bytes of a hex string; nil (the empty sequence)
\* when s is empty, of odd length or holds a non-hex symbol
decodeHex(s) ==
    IF Len(s) = 0 \/ Len(s) % 2 = 1 \/ \E i \in 1..Len(s) : ~IsHex(s[i])
    THEN <<>>
    ELSE [i \in 1..(Len(s) \div 2) |-> HexVal(s[2 * i - 1]) * 16 + HexVal(s[2 * i])]

RECURSIVE compareBytesFrom(_, _, _)
compareBytesFrom(a, b, i) ==
    IF i > Len(a) \/ i > Len(b)
    THEN IF Len(a) < Len(b) THEN -1 ELSE IF Len(a) > Len(b) THEN 1 ELSE 0
    ELSE IF a[i] < b[i] THEN -1
    ELSE IF a[i] > b[i] THEN 1
    ELSE compareBytesFrom(a, b, i + 1)

\* func compareBytes(a, b): lexicographic comparison of two byte slices
compareBytes(a, b) == compareBytesFrom(a, b, 1)

(***************************************************************************)
(* Order of Go strings.  Symbols are ranked by SymOrder (byte order of the *)
(* texts they stand for); strings compare symbol by symbol.                *)
(***************************************************************************)
SymOrder == <<"SQL", "db", "dbt", "event_type", "exception", "failing_rows", "k", "m", "message",
              "name", "node_outcome", "node_test_detail", "node_type",
              "sql", "statement", "test_outcome", "type", "unique_id">>

SymRank(c) == CHOOSE i \in 1..Len(SymOrder) : SymOrder[i] = c

RECURSIVE StrGreaterFrom(_, _, _)
StrGreaterFrom(a, b, i) ==
    IF i > Len(a) THEN FALSE
    ELSE IF i > Len(b) THEN TRUE
    ELSE IF SymRank(a[i]) > SymRank(b[i]) THEN TRUE
    ELSE IF SymRank(a[i]) < SymRank(b[i]) THEN FALSE
    ELSE StrGreaterFrom(a, b, i + 1)

\* strs[j] > strs[j+1] on Go strings
StrGreater(a, b) == StrGreaterFrom(a, b, 1)

Swap(s, j) == [s EXCEPT ![j] = s[j + 1], ![j + 1] = s[j]]

RECURSIVE sortStringsLoop(_, _, _)
sortStringsLoop(strs, i, j) ==
    LET n == Len(strs) IN
    IF i >= n - 1 THEN strs
    ELSE IF j >= n - i - 1 THEN sortStringsLoop(strs, i + 1, 0)
    ELSE sortStringsLoop(IF StrGreater(strs[j + 1], strs[j + 2])
                         THEN Swap(strs, j + 1) ELSE strs, i, j + 1)

\* func sortStrings(strs): bubble sort, ascending
sortStrings(strs) == sortStringsLoop(strs, 0, 0)

RECURSIVE SetToSeq(_)
\* the keys of a Go map in some iteration order (sortStrings follows)
SetToSeq(S) ==
    IF S = {} THEN <<>>
    ELSE LET x == CHOOSE y \in S : TRUE IN <<x>> \o SetToSeq(S \ {x})

RECURSIVE jsonValueToAnyValue(_)
\* func jsonValueToKeyValue(key, value).Value: the OTLP AnyValue of a Go value
\* (t is string, number for float64, int64, bool, object for map[string]any,
\* array for []any, nil for anything else, printed with %v)
jsonValueToAnyValue(value) ==
    CASE value.t = "string" -> [kind |-> "StringValue", val |-> value.v]
      [] value.t = "number" -> [kind |-> "DoubleValue", val |-> value.v]
      [] value.t = "int64" -> [kind |-> "IntValue", val |-> value.v]
      [] value.t = "bool" -> [kind |-> "BoolValue", val |-> value.v]
      [] value.t = "nil" -> [kind |-> "StringValue", val |-> <<"<nil>">>]
      [] value.t = "object" ->
           LET keys == sortStrings(SetToSeq(DOMAIN value.v)) IN
           [kind |-> "KvlistValue",
            val |-> [i \in 1..Len(keys) |->
                       [Key |-> keys[i], Value |-> jsonValueToAnyValue(value.v[keys[i]])]]]
      [] value.t = "array" ->
           [kind |-> "ArrayValue",
            val |-> [i \in 1..Len(value.v) |-> jsonValueToAnyValue(value.v[i])]]

\* func jsonValueToKeyValue(key, value)
jsonValueToKeyValue(key, value) == [Key |-> key, Value |-> jsonValueToAnyValue(value)]

\* func convertAttributesFromMap(obj): one KeyValue per key, keys ascending
convertAttributesFromMap(obj) ==
    LET keys == sortStrings(SetToSeq(DOMAIN obj)) IN
    [i \in 1..Len(keys) |-> jsonValueToKeyValue(keys[i], obj[keys[i]])]

StringKeyValue(key, s) == [Key |-> key, Value |-> [kind |-> "StringValue", val |-> s]]

\* func extractAttributes(obj, attrs): attrs followed by the "attributes"
\* object of the record and, when present, its event_type
extractAttributes(obj, attrs) ==
    LET a == objectFrom(obj, "attributes")
        withAttrs == IF a.ok THEN attrs \o convertAttributesFromMap(a.m) ELSE attrs
        eventType == stringFrom(obj, "event_type")
    IN  IF eventType # EmptyStr
        THEN Append(withAttrs, StringKeyValue(<<"event_type">>, eventType))
        ELSE withAttrs

RECURSIVE extractEventsFrom(_, _)
extractEventsFrom(arr, i) ==
    IF i > Len(arr) THEN <<>>
    ELSE IF arr[i].t # "object" THEN extractEventsFrom(arr, i + 1)
    ELSE LET eventObj == arr[i].v
             timeStr == stringFrom(eventObj, "time_unix_nano")
             a == objectFrom(eventObj, "attributes")
         IN  <<[Name |-> stringFrom(eventObj, "name"),
                TimeUnixNano |-> IF timeStr # EmptyStr THEN parseNano(timeStr, 0) ELSE 0,
                Attributes |-> IF a.ok THEN convertAttributesFromMap(a.m) ELSE <<>>]>>
             \o extractEventsFrom(arr, i + 1)

\* func extractEvents(obj): the span events of the "events" array
extractEvents(obj) ==
    IF "events" \in DOMAIN obj /\ obj["events"].t = "array"
    THEN extractEventsFrom(obj["events"].v, 1)
    ELSE <<>>

RECURSIVE deduplicateFrom(_, _, _, _)
deduplicateFrom(attrs, i, seen, result) ==
    IF i > Len(attrs) THEN result
    ELSE IF attrs[i].Key \notin seen
         THEN deduplicateFrom(attrs, i + 1, seen \cup {attrs[i].Key}, Append(result, attrs[i]))
         ELSE deduplicateFrom(attrs, i + 1, seen, result)

\* func deduplicateAttributes(attrs): the first occurrence of every key
deduplicateAttributes(attrs) ==
    IF Len(attrs) = 0 THEN attrs ELSE deduplicateFrom(attrs, 1, {}, <<>>)

\* faulty variant of defaultAttributeTransformer: the prefix is also put before
\* the keys that already carry it
defaultAttributeTransformer_PrefixAll(attrs) ==
    [i \in 1..Len(attrs) |->
        [Key |-> IF attrs[i].Key = <<"sql">> THEN <<"db", "statement">>
                 ELSE <<"dbt">> \o attrs[i].Key,
         Value |-> attrs[i].Value]]

\* func defaultAttributeTransformer(attrs): sql -> db.statement, every other
\* key not starting with "dbt." gets that prefix
defaultAttributeTransformer(attrs) ==
    [i \in 1..Len(attrs) |->
        LET key == attrs[i].Key IN
        [Key |-> IF key = <<"sql">> THEN <<"db", "statement">>
                 ELSE IF ~(Len(key) >= 2 /\ key[1] = "dbt") THEN <<"dbt">> \o key
                 ELSE key,
         Value |-> attrs[i].Value]]

(***************************************************************************)
(* Span partials and the records the Decoder emits                         *)
(***************************************************************************)
STATUS_CODE_UNSET == 0

STATUS_CODE_ERROR == 2

\* &spanPartial{}: the zero value
ZeroPartial ==
    [traceID |-> EmptyStr, spanID |-> EmptyStr, parent |-> EmptyStr, name |-> EmptyStr,
     start |-> 0, end |-> 0, attrs |-> <<>>, events |-> <<>>,
     statusCode |-> STATUS_CODE_UNSET, statusMessage |-> EmptyStr]

\* d.spanPartials[spanID] = p
MapPut(m, k, p) == [x \in DOMAIN m \cup {k} |-> IF x = k THEN p ELSE m[x]]

\* faulty variant of MapDelete: the entry is kept
MapDelete_Keeps(m, k) == m

\* delete(d.spanPartials, spanID)
MapDelete(m, k) == [x \in DOMAIN m \ {k} |-> m[x]]

RECURSIVE fmtInt(_)
\* %d of a non-negative integer, digit by digit
fmtInt(n) == IF n < 10 THEN <<DigitSyms[n + 1]>> ELSE fmtInt(n \div 10) \o <<DigitSyms[(n % 10) + 1]>>

\* faulty variant of buildSpan: the end time is left as recorded and a status
\* is attached to every span
buildSpan_Bare(p) ==
    [Name |-> p.name,
     TraceId |-> decodeHex(p.traceID),
     SpanId |-> decodeHex(p.spanID),
     ParentSpanId |-> decodeHex(p.parent),
     StartTimeUnixNano |-> p.start,
     EndTimeUnixNano |-> p.end,
     Attributes |-> deduplicateAttributes(p.attrs),
     Events |-> p.events,
     Status |-> <<[Code |-> p.statusCode, Message |-> p.statusMessage]>>]

\* func (d *Decoder) buildSpan(p): the OTLP span of a partial with a start time
\* (a nil Status or Body is the empty sequence, a set one a singleton)
buildSpan(p) ==
    [Name |-> p.name,
     TraceId |-> decodeHex(p.traceID),
     SpanId |-> decodeHex(p.spanID),
     ParentSpanId |-> decodeHex(p.parent),
     StartTimeUnixNano |-> p.start,
     EndTimeUnixNano |-> IF p.end = 0 THEN p.start ELSE p.end,
     Attributes |-> deduplicateAttributes(p.attrs),
     Events |-> p.events,
     Status |-> IF p.statusCode # STATUS_CODE_UNSET
                THEN <<[Code |-> p.statusCode, Message |-> p.statusMessage]>>
                ELSE <<>>]

\* faulty variant of logTimeNanoOf: the start time of span records is ignored,
\* only time_unix_nano is read
logTimeNanoOf_TimeOnly(obj) ==
    IF stringFrom(obj, "time_unix_nano") # EmptyStr
    THEN parseNano(stringFrom(obj, "time_unix_nano"), 0)
    ELSE 0

\* DecodeLines, lines 91-97: the record's own timestamp
logTimeNanoOf(obj) ==
    IF stringFrom(obj, "start_time_unix_nano") # EmptyStr
    THEN parseNano(stringFrom(obj, "start_time_unix_nano"), 0)
    ELSE IF stringFrom(obj, "time_unix_nano") # EmptyStr
    THEN parseNano(stringFrom(obj, "time_unix_nano"), 0)
    ELSE 0

\* faulty variant of cutoffSkips: no record is skipped
cutoffSkips_Never(logTimeNano, cutoffTimeNano) == FALSE

\* DecodeLines, line 98: the record is older than the cutoff and skipped
cutoffSkips(logTimeNano, cutoffTimeNano) ==
    logTimeNano > 0 /\ logTimeNano < cutoffTimeNano

\* DecodeLines, lines 114-120: span id, trace id and parent id of the record
mergeIds(p, obj, spanID) ==
    LET traceID == stringFrom(obj, "trace_id")
        parent == stringFrom(obj, "parent_span_id")
    IN  [p EXCEPT !.spanID = spanID,
                  !.traceID = IF traceID # EmptyStr THEN traceID ELSE @,
                  !.parent = IF parent # EmptyStr THEN parent ELSE @]

\* DecodeLines, lines 122-132: a SpanStart record; now is time.Now() as read
\* for the fallback of the start time
mergeSpanStart(p, obj, now) ==
    LET name == stringFrom(obj, "span_name")
        start == stringFrom(obj, "start_time_unix_nano")
    IN  [p EXCEPT !.name = IF name # EmptyStr THEN name ELSE @,
                  !.start = IF start # EmptyStr THEN parseNano(start, now) ELSE @,
                  !.attrs = extractAttributes(obj, @),
                  !.events = @ \o extractEvents(obj)]

\* DecodeLines, lines 134-150: end time, attributes, events and status of a
\* SpanEnd record
mergeSpanEnd(p, obj) ==
    LET end == stringFrom(obj, "end_time_unix_nano")
        st == objectFrom(obj, "status")
        code == getInt(st.m, "code")
        msg == stringFrom(st.m, "message")
    IN  [p EXCEPT !.end = IF end # EmptyStr THEN parseNano(end, p.start) ELSE @,
                  !.attrs = extractAttributes(obj, @),
                  !.events = @ \o extractEvents(obj),
                  !.statusCode = IF st.ok /\ code > 0 THEN code ELSE @,
                  !.statusMessage = IF st.ok /\ msg # EmptyStr THEN msg ELSE @]

\* the first string-valued exception.message attribute of an event, "" if none
exceptionMessageOf(event) ==
    LET hits == {i \in 1..Len(event.Attributes) :
                    /\ event.Attributes[i].Key = <<"exception", "message">>
                    /\ event.Attributes[i].Value.kind = "StringValue"}
    IN  IF hits = {} THEN EmptyStr
        ELSE event.Attributes[CHOOSE i \in hits : \A j \in hits : i <= j].Value.val

\* faulty variant of exceptionStatus: an event named exception sets ERROR and
\* its own message whatever the record carried
exceptionStatus_Overrides(p) ==
    LET hits == {i \in 1..Len(p.events) : p.events[i].Name = <<"exception">>}
    IN  IF hits = {} THEN p
        ELSE LET event == p.events[CHOOSE i \in hits : \A j \in hits : i <= j]
             IN  [p EXCEPT !.statusCode = STATUS_CODE_ERROR,
                           !.statusMessage = exceptionMessageOf(event)]

\* DecodeLines, lines 152-171: the first event named exception sets ERROR on an
\* unset status and supplies a missing status message
exceptionStatus(p) ==
    LET hits == {i \in 1..Len(p.events) : p.events[i].Name = <<"exception">>}
    IN  IF hits = {} THEN p
        ELSE LET event == p.events[CHOOSE i \in hits : \A j \in hits : i <= j]
                 m == exceptionMessageOf(event)
             IN  [p EXCEPT !.statusCode = IF @ = STATUS_CODE_UNSET THEN STATUS_CODE_ERROR ELSE @,
                           !.statusMessage = IF @ = EmptyStr /\ m # EmptyStr THEN m ELSE @]

\* faulty variant of testFailure: the status code a record carried is kept, as
\* it is for an exception event of the record
testFailure_KeepsStatus(p, obj) ==
    LET a == objectFrom(obj, "attributes")
        testDetail == objectFrom(a.m, <<"node_test_detail">>)
        failingRows == getInt(testDetail.m, <<"failing_rows">>)
        exceptionMsg == <<"Test failed with ">> \o fmtInt(failingRows) \o <<" failing rows">>
    IN  IF a.ok /\ testDetail.ok
           /\ stringFrom(testDetail.m, <<"test_outcome">>) = <<"TEST_OUTCOME_FAILED">>
        THEN [p EXCEPT !.events = Append(@, [Name |-> <<"exception">>,
                                             TimeUnixNano |-> p.end,
                                             Attributes |->
                <<StringKeyValue(<<"exception", "type">>, <<"dbt.TestFailure">>),
                  StringKeyValue(<<"exception", "message">>, exceptionMsg)>>]),
                       !.statusCode = IF @ = STATUS_CODE_UNSET THEN STATUS_CODE_ERROR ELSE @]
        ELSE p

\* DecodeLines, lines 173-218: a failed test outcome adds an exception event
\* and sets ERROR
testFailure(p, obj) ==
    LET a == objectFrom(obj, "attributes")
        testDetail == objectFrom(a.m, <<"node_test_detail">>)
        failingRows == getInt(testDetail.m, <<"failing_rows">>)
        uniqueID == stringFrom(a.m, <<"unique_id">>)
        exceptionMsg == IF uniqueID # EmptyStr
                        THEN <<"Test '">> \o uniqueID \o <<"' failed with ">>
                             \o fmtInt(failingRows) \o <<" failing rows">>
                        ELSE <<"Test failed with ">> \o fmtInt(failingRows) \o <<" failing rows">>
        exceptionAttrs ==
            <<StringKeyValue(<<"exception", "type">>, <<"dbt.TestFailure">>),
              StringKeyValue(<<"exception", "message">>, exceptionMsg)>>
            \o IF failingRows > 0
               THEN <<[Key |-> <<"dbt", "test", "failing_rows">>,
                       Value |-> [kind |-> "IntValue", val |-> failingRows]]>>
               ELSE <<>>
    IN  IF a.ok /\ testDetail.ok
           /\ stringFrom(testDetail.m, <<"test_outcome">>) = <<"TEST_OUTCOME_FAILED">>
        THEN [p EXCEPT !.events = Append(@, [Name |-> <<"exception">>,
                                             TimeUnixNano |-> p.end,
                                             Attributes |-> exceptionAttrs]),
                       !.statusCode = STATUS_CODE_ERROR,
                       !.statusMessage = IF @ = EmptyStr THEN exceptionMsg ELSE @]
        ELSE p

\* faulty variant of nodeFailure: the node outcome is not looked at
nodeFailure_Never(p, obj) == p

\* DecodeLines, lines 220-273: a node outcome other than success adds an
\* exception event and sets ERROR
nodeFailure(p, obj) ==
    LET a == objectFrom(obj, "attributes")
        nodeOutcome == stringFrom(a.m, <<"node_outcome">>)
        nodeType == stringFrom(a.m, <<"node_type">>)
        nodeName == stringFrom(a.m, <<"name">>)
        uniqueID == stringFrom(a.m, <<"unique_id">>)
        exceptionMsg == IF nodeName # EmptyStr
                        THEN <<"Node '">> \o nodeName \o <<"' evaluation failed (outcome: ">>
                             \o nodeOutcome \o <<")">>
                        ELSE <<"Node evaluation failed: ">> \o uniqueID \o <<" (outcome: ">>
                             \o nodeOutcome \o <<")">>
        exceptionAttrs ==
            <<StringKeyValue(<<"exception", "type">>, <<"dbt.NodeEvaluationFailure">>),
              StringKeyValue(<<"exception", "message">>, exceptionMsg)>>
            \o (IF nodeType # EmptyStr
                THEN <<StringKeyValue(<<"dbt", "node", "type">>, nodeType)>> ELSE <<>>)
            \o (IF uniqueID # EmptyStr
                THEN <<StringKeyValue(<<"dbt", "node", "unique_id">>, uniqueID)>> ELSE <<>>)
            \o <<StringKeyValue(<<"dbt", "node", "outcome">>, nodeOutcome)>>
    IN  IF a.ok /\ nodeOutcome # EmptyStr /\ nodeOutcome # <<"NODE_OUTCOME_SUCCESS">>
        THEN [p EXCEPT !.events = Append(@, [Name |-> <<"exception">>,
                                             TimeUnixNano |-> p.end,
                                             Attributes |-> exceptionAttrs]),
                       !.statusCode = STATUS_CODE_ERROR,
                       !.statusMessage = IF @ = EmptyStr THEN exceptionMsg ELSE @]
        ELSE p

(***************************************************************************)
(* DecodeLines.  A line is [kind |-> "garbage"] (json.Unmarshal fails) or  *)
(* [kind |-> "object", obj |-> the decoded object].  A decode state is the *)
(* span-partial map with the spans and logs collected so far in the call.  *)
(***************************************************************************)

\* faulty variant of hasStart: the end time is tested instead of the start time
hasStart_EndSeen(p) == p.end > 0

\* faulty variant of hasStart: every SpanEnd emits
hasStart_Always(p) == TRUE

\* DecodeLines, line 277: the start time of the span is known
hasStart(p) == p.start > 0

\* DecodeLines, lines 103-286: one SpanStart or SpanEnd record
decodeSpanRecord(st, obj, recordType, now) ==
    LET spanID == stringFrom(obj, "span_id")
        p0 == IF spanID \in DOMAIN st.partials THEN st.partials[spanID] ELSE ZeroPartial
        p1 == mergeIds(p0, obj, spanID)
    IN  IF spanID = EmptyStr THEN st
        ELSE IF recordType = <<"SpanStart">>
        THEN [st EXCEPT !.partials = MapPut(@, spanID, mergeSpanStart(p1, obj, now))]
        ELSE LET p == nodeFailure(testFailure(exceptionStatus(mergeSpanEnd(p1, obj)), obj), obj)
             IN  IF hasStart(p)
                 THEN [st EXCEPT
                         !.spans = Append(@, [buildSpan(p) EXCEPT
                                     !.Attributes = defaultAttributeTransformer(@)]),
                         !.partials = MapDelete(@, spanID)]
                 ELSE [st EXCEPT !.partials = MapPut(@, spanID, p)]

\* faulty variant of hasBothIds: one of the two ids is enough
hasBothIds_Either(traceID, spanID) == traceID # EmptyStr \/ spanID # EmptyStr

\* DecodeLines, line 291: the record carries a trace id and a span id
hasBothIds(traceID, spanID) == ~(traceID = EmptyStr \/ spanID = EmptyStr)

\* DecodeLines, lines 288-311: one LogRecord record
decodeLogRecord(st, obj, logTimeNano) ==
    LET traceID == stringFrom(obj, "trace_id")
        spanID == stringFrom(obj, "span_id")
        body == stringFrom(obj, "body")
    IN  IF ~hasBothIds(traceID, spanID) THEN st
        ELSE [st EXCEPT !.logs = Append(@,
                [TimeUnixNano |-> logTimeNano,
                 TraceId |-> decodeHex(traceID),
                 SpanId |-> decodeHex(spanID),
                 SeverityNumber |-> getInt(obj, "severity_number"),
                 SeverityText |-> stringFrom(obj, "severity_text"),
                 Attributes |-> defaultAttributeTransformer(extractAttributes(obj, <<>>)),
                 Body |-> IF body # EmptyStr
                          THEN <<[kind |-> "StringValue", val |-> body]>> ELSE <<>>])]

\* DecodeLines, lines 81-313: the body of the loop for one line
decodeLine(st, line, cutoffTimeNano, now) ==
    IF line.kind # "object" THEN st
    ELSE LET obj == line.obj
             recordType == stringFrom(obj, "record_type")
             logTimeNano == logTimeNanoOf(obj)
         IN  IF recordType = EmptyStr THEN st
             ELSE IF cutoffSkips(logTimeNano, cutoffTimeNano) THEN st
             ELSE IF recordType \in {<<"SpanStart">>, <<"SpanEnd">>}
                  THEN decodeSpanRecord(st, obj, recordType, now)
             ELSE IF recordType = <<"LogRecord">>
                  THEN decodeLogRecord(st, obj, logTimeNano)
             ELSE st

RECURSIVE decodeLoop_StopsAtBadLine(_, _, _, _, _)
\* faulty variant of decodeLoop: the loop ends at the first line that is not a
\* JSON object or has no record type
decodeLoop_StopsAtBadLine(st, lines, nows, cutoffTimeNano, i) ==
    IF i > Len(lines) THEN st
    ELSE IF lines[i].kind # "object" \/ stringFrom(lines[i].obj, "record_type") = EmptyStr
    THEN st
    ELSE decodeLoop_StopsAtBadLine(decodeLine(st, lines[i], cutoffTimeNano, nows[i]),
                                   lines, nows, cutoffTimeNano, i + 1)

RECURSIVE decodeLoop(_, _, _, _, _)
\* DecodeLines, lines 81-314: the loop over the lines of the call
decodeLoop(st, lines, nows, cutoffTimeNano, i) ==
    IF i > Len(lines) THEN st
    ELSE decodeLoop(decodeLine(st, lines[i], cutoffTimeNano, nows[i]),
                    lines, nows, cutoffTimeNano, i + 1)

\* faulty variant of spanAfter: spans of equal start time are left as they are
spanAfter_StartOnly(a, b) == a.StartTimeUnixNano > b.StartTimeUnixNano

\* spans[j] sorts after spans[j+1]: later start, or equal start and greater id
spanAfter(a, b) ==
    \/ a.StartTimeUnixNano > b.StartTimeUnixNano
    \/ /\ a.StartTimeUnixNano = b.StartTimeUnixNano
       /\ compareBytes(a.SpanId, b.SpanId) > 0

RECURSIVE sortSpansLoop(_, _, _)
sortSpansLoop(spans, i, j) ==
    LET n == Len(spans) IN
    IF i >= n - 1 THEN spans
    ELSE IF j >= n - i - 1 THEN sortSpansLoop(spans, i + 1, 0)
    ELSE sortSpansLoop(IF spanAfter(spans[j + 1], spans[j + 2])
                       THEN Swap(spans, j + 1) ELSE spans, i, j + 1)

\* func sortSpansByStartTime(spans): bubble sort by (start time, span id)
sortSpansByStartTime(spans) == sortSpansLoop(spans, 0, 0)

\* logs[j] sorts after logs[j+1]: later time, or equal time and greater id
logAfter(a, b) ==
    \/ a.TimeUnixNano > b.TimeUnixNano
    \/ /\ a.TimeUnixNano = b.TimeUnixNano
       /\ compareBytes(a.SpanId, b.SpanId) > 0

RECURSIVE sortLogsLoop(_, _, _)
sortLogsLoop(logs, i, j) ==
    LET n == Len(logs) IN
    IF i >= n - 1 THEN logs
    ELSE IF j >= n - i - 1 THEN sortLogsLoop(logs, i + 1, 0)
    ELSE sortLogsLoop(IF logAfter(logs[j + 1], logs[j + 2])
                      THEN Swap(logs, j + 1) ELSE logs, i, j + 1)

\* func sortLogsByTime(logs): bubble sort by (time, span id)
sortLogsByTime(logs) == sortLogsLoop(logs, 0, 0)

\* faulty variant of DecodeLines: the partials of earlier calls are forgotten,
\* as with a Decoder created for each flush
DecodeLines_FreshPartials(partials, cutoffTimeNano, lines, nows) ==
    LET st == decodeLoop([partials |-> EmptyMap, spans |-> <<>>, logs |-> <<>>],
                         lines, nows, cutoffTimeNano, 1)
    IN  [partials |-> st.partials,
         spans |-> sortSpansByStartTime(st.spans),
         logs |-> sortLogsByTime(st.logs)]

\* func (d *Decoder) DecodeLines(lines): the partials left in the Decoder and
\* the sorted spans and logs returned; nows[i] is the clock as line i reads it
DecodeLines(partials, cutoffTimeNano, lines, nows) ==
    LET st == decodeLoop([partials |-> partials, spans |-> <<>>, logs |-> <<>>],
                         lines, nows, cutoffTimeNano, 1)
    IN  [partials |-> st.partials,
         spans |-> sortSpansByStartTime(st.spans),
         logs |-> sortLogsByTime(st.logs)]

(***************************************************************************)
(* Input lines of the Decoder                                              *)
(***************************************************************************)
Obj(f) == [kind |-> "object", obj |-> f]

Id01 == <<"0", "1">>

Id02 == <<"0", "2">>

TraceAA == <<"a", "a">>

\* SpanStart of span 01 at time 7
LineS1 ==
    Obj([record_type |-> JStr(<<"SpanStart">>), trace_id |-> JStr(TraceAA),
         span_id |-> JStr(Id01), span_name |-> JStr(<<"run">>),
         start_time_unix_nano |-> JStr(<<"7">>),
         attributes |-> JObj((<<"k">> :> JStr(<<"s1">>)) @@ (<<"sql">> :> JStr(<<"q">>)))])

\* SpanEnd of span 01, started at 7 and ended at 9
LineE1 ==
    Obj([record_type |-> JStr(<<"SpanEnd">>), trace_id |-> JStr(TraceAA),
         span_id |-> JStr(Id01), span_name |-> JStr(<<"run">>),
         start_time_unix_nano |-> JStr(<<"7">>), end_time_unix_nano |-> JStr(<<"9">>),
         attributes |-> JObj((<<"k">> :> JStr(<<"e1">>)) @@ (<<"m">> :> JStr(<<"x">>)))])

\* SpanStart of span 02, child of 01, at time 7
LineS2 ==
    Obj([record_type |-> JStr(<<"SpanStart">>), trace_id |-> JStr(TraceAA),
         span_id |-> JStr(Id02), parent_span_id |-> JStr(Id01),
         span_name |-> JStr(<<"model">>), start_time_unix_nano |-> JStr(<<"7">>)])

\* SpanEnd of span 02, ended at 8
LineE2 ==
    Obj([record_type |-> JStr(<<"SpanEnd">>), trace_id |-> JStr(TraceAA),
         span_id |-> JStr(Id02), parent_span_id |-> JStr(Id01),
         start_time_unix_nano |-> JStr(<<"7">>), end_time_unix_nano |-> JStr(<<"8">>)])

\* SpanStart of span 01 left by an earlier run, at time 3
LineS1old ==
    Obj([record_type |-> JStr(<<"SpanStart">>), trace_id |-> JStr(TraceAA),
         span_id |-> JStr(Id01), span_name |-> JStr(<<"old">>),
         start_time_unix_nano |-> JStr(<<"3">>),
         attributes |-> JObj(<<"k">> :> JStr(<<"old">>))])

\* SpanEnd of span 01 left by an earlier run, started at 3 and ended at 4
LineE1old ==
    Obj([record_type |-> JStr(<<"SpanEnd">>), trace_id |-> JStr(TraceAA),
         span_id |-> JStr(Id01), start_time_unix_nano |-> JStr(<<"3">>),
         end_time_unix_nano |-> JStr(<<"4">>),
         attributes |-> JObj(<<"m">> :> JStr(<<"old">>))])

\* SpanStart of span 01 whose start time is not a number
LineS1bad ==
    Obj([record_type |-> JStr(<<"SpanStart">>), trace_id |-> JStr(TraceAA),
         span_id |-> JStr(Id01), span_name |-> JStr(<<"late">>),
         start_time_unix_nano |-> JStr(<<"x">>)])

\* SpanStart of span 01 without a start time
LineS1none ==
    Obj([record_type |-> JStr(<<"SpanStart">>), trace_id |-> JStr(TraceAA),
         span_id |-> JStr(Id01), span_name |-> JStr(<<"untimed">>)])

\* LogRecord of span 01 at time 7; event_type is also a key of its attributes
LineL1 ==
    Obj([record_type |-> JStr(<<"LogRecord">>), trace_id |-> JStr(TraceAA),
         span_id |-> JStr(Id01), time_unix_nano |-> JStr(<<"7">>),
         severity_number |-> JNum(9), severity_text |-> JStr(<<"INFO">>),
         body |-> JStr(<<"hello">>), event_type |-> JStr(<<"b">>),
         attributes |-> JObj((<<"event_type">> :> JStr(<<"a">>)) @@ (<<"k">> :> JStr(<<"l1">>)))])

\* LogRecord of span 02 left by an earlier run, at time 3
LineL2old ==
    Obj([record_type |-> JStr(<<"LogRecord">>), trace_id |-> JStr(TraceAA),
         span_id |-> JStr(Id02), time_unix_nano |-> JStr(<<"3">>),
         severity_number |-> JNum(9), body |-> JStr(<<"stale">>)])

\* LogRecord of span 02 whose time is a JSON number, not a string
LineL2num ==
    Obj([record_type |-> JStr(<<"LogRecord">>), trace_id |-> JStr(TraceAA),
         span_id |-> JStr(Id02), time_unix_nano |-> JNum(7),
         severity_number |-> JNum(9), body |-> JStr(<<"untimed">>)])

\* a line that is not a JSON object
LineGarbage == [kind |-> "garbage"]

\* a JSON object without a record type
LineNoType ==
    Obj([trace_id |-> JStr(TraceAA), span_id |-> JStr(Id01),
         start_time_unix_nano |-> JStr(<<"7">>), end_time_unix_nano |-> JStr(<<"9">>)])

\* SpanStart of span 01 at time 7 whose attributes hold k next to dbt.k and
\* sql next to SQL
LineS3 ==
    Obj([record_type |-> JStr(<<"SpanStart">>), trace_id |-> JStr(TraceAA),
         span_id |-> JStr(Id01), span_name |-> JStr(<<"test">>),
         start_time_unix_nano |-> JStr(<<"7">>),
         attributes |-> JObj((<<"k">> :> JStr(<<"a">>)) @@ (<<"dbt", "k">> :> JStr(<<"b">>))
                             @@ (<<"sql">> :> JStr(<<"q">>)) @@ (<<"SQL">> :> JStr(<<"Q">>)))])

\* SpanEnd of span 01 with status OK (1) whose test failed on 3 rows
LineE3 ==
    Obj([record_type |-> JStr(<<"SpanEnd">>), trace_id |-> JStr(TraceAA),
         span_id |-> JStr(Id01), start_time_unix_nano |-> JStr(<<"7">>),
         end_time_unix_nano |-> JStr(<<"9">>),
         status |-> JObj([code |-> JNum(1)]),
         attributes |-> JObj((<<"node_test_detail">> :>
                                JObj((<<"test_outcome">> :> JStr(<<"TEST_OUTCOME_FAILED">>))
                                     @@ (<<"failing_rows">> :> JNum(3))))
                             @@ (<<"unique_id">> :> JStr(<<"t">>)))])

\* SpanEnd of span 01 without status whose test failed, with neither a row
\* count nor a unique id
LineE3bare ==
    Obj([record_type |-> JStr(<<"SpanEnd">>), trace_id |-> JStr(TraceAA),
         span_id |-> JStr(Id01), start_time_unix_nano |-> JStr(<<"7">>),
         end_time_unix_nano |-> JStr(<<"8">>),
         attributes |-> JObj(<<"node_test_detail">> :>
                                JObj(<<"test_outcome">> :> JStr(<<"TEST_OUTCOME_FAILED">>)))])

\* LogRecord of span 01 at time 7 whose attributes hold k next to dbt.k
LineL3 ==
    Obj([record_type |-> JStr(<<"LogRecord">>), trace_id |-> JStr(TraceAA),
         span_id |-> JStr(Id01), time_unix_nano |-> JStr(<<"7">>),
         severity_number |-> JNum(9), body |-> JStr(<<"hello">>),
         attributes |-> JObj((<<"k">> :> JStr(<<"a">>)) @@ (<<"dbt", "k">> :> JStr(<<"b">>)))])

\* the span records of the pairing and cutoff scenarios
\* SpanStart of span 02, child of 01, at time 6, before the start of its parent
LineS2first ==
    Obj([record_type |-> JStr(<<"SpanStart">>), trace_id |-> JStr(TraceAA),
         span_id |-> JStr(Id02), parent_span_id |-> JStr(Id01),
         span_name |-> JStr(<<"model">>), start_time_unix_nano |-> JStr(<<"6">>)])

\* LogRecord of span 02 at time 7, the time of LineL1
LineL2same ==
    Obj([record_type |-> JStr(<<"LogRecord">>), trace_id |-> JStr(TraceAA),
         span_id |-> JStr(Id02), time_unix_nano |-> JStr(<<"7">>),
         severity_number |-> JNum(9), body |-> JStr(<<"same">>)])

\* LogRecord at time 7 with a trace id and no span id
LineLnoSpan ==
    Obj([record_type |-> JStr(<<"LogRecord">>), trace_id |-> JStr(TraceAA),
         time_unix_nano |-> JStr(<<"7">>), severity_number |-> JNum(9),
         body |-> JStr(<<"nospan">>)])

\* LogRecord of span 01 at time 7 without a trace id
LineLnoTrace ==
    Obj([record_type |-> JStr(<<"LogRecord">>), span_id |-> JStr(Id01),
         time_unix_nano |-> JStr(<<"7">>), severity_number |-> JNum(9),
         body |-> JStr(<<"notrace">>)])

\* SpanStart of span 01 at time 7 with an exception event whose message is boom
LineS4 ==
    Obj([record_type |-> JStr(<<"SpanStart">>), trace_id |-> JStr(TraceAA),
         span_id |-> JStr(Id01), span_name |-> JStr(<<"run">>),
         start_time_unix_nano |-> JStr(<<"7">>),
         events |-> JArr(<<JObj([name |-> JStr(<<"exception">>),
                                 attributes |-> JObj(<<"exception", "message">> :>
                                                        JStr(<<"boom">>))])>>)])

\* SpanEnd of span 01 with neither an end time nor a status
LineE4 ==
    Obj([record_type |-> JStr(<<"SpanEnd">>), trace_id |-> JStr(TraceAA),
         span_id |-> JStr(Id01), start_time_unix_nano |-> JStr(<<"7">>)])

\* SpanEnd of span 01 with status OK (1) and the message fine
LineE4ok ==
    Obj([record_type |-> JStr(<<"SpanEnd">>), trace_id |-> JStr(TraceAA),
         span_id |-> JStr(Id01), start_time_unix_nano |-> JStr(<<"7">>),
         end_time_unix_nano |-> JStr(<<"9">>),
         status |-> JObj([code |-> JNum(1), message |-> JStr(<<"fine">>)])])

\* SpanEnd of span 01 with status OK (1) and no message
LineE4code ==
    Obj([record_type |-> JStr(<<"SpanEnd">>), trace_id |-> JStr(TraceAA),
         span_id |-> JStr(Id01), start_time_unix_nano |-> JStr(<<"7">>),
         end_time_unix_nano |-> JStr(<<"9">>),
         status |-> JObj([code |-> JNum(1)])])

\* SpanEnd of span 01 whose node failed and whose test failed on 3 rows
LineE5 ==
    Obj([record_type |-> JStr(<<"SpanEnd">>), trace_id |-> JStr(TraceAA),
         span_id |-> JStr(Id01), start_time_unix_nano |-> JStr(<<"7">>),
         end_time_unix_nano |-> JStr(<<"9">>),
         attributes |-> JObj((<<"node_outcome">> :> JStr(<<"NODE_OUTCOME_ERROR">>))
                             @@ (<<"node_type">> :> JStr(<<"test">>))
                             @@ (<<"node_test_detail">> :>
                                   JObj((<<"test_outcome">> :> JStr(<<"TEST_OUTCOME_FAILED">>))
                                        @@ (<<"failing_rows">> :> JNum(3)))))])

\* SpanEnd of span 01 with status OK (1) whose node failed, with a name
LineE5node ==
    Obj([record_type |-> JStr(<<"SpanEnd">>), trace_id |-> JStr(TraceAA),
         span_id |-> JStr(Id01), start_time_unix_nano |-> JStr(<<"7">>),
         end_time_unix_nano |-> JStr(<<"9">>),
         status |-> JObj([code |-> JNum(1)]),
         attributes |-> JObj((<<"node_outcome">> :> JStr(<<"NODE_OUTCOME_SKIPPED">>))
                             @@ (<<"name">> :> JStr(<<"n">>)))])

\* SpanEnd of span 01 whose node succeeded
LineE5ok ==
    Obj([record_type |-> JStr(<<"SpanEnd">>), trace_id |-> JStr(TraceAA),
         span_id |-> JStr(Id01), start_time_unix_nano |-> JStr(<<"7">>),
         end_time_unix_nano |-> JStr(<<"9">>),
         attributes |-> JObj(<<"node_outcome">> :> JStr(<<"NODE_OUTCOME_SUCCESS">>))])

SpansPool ==
    <<LineS1, LineE1, LineS2, LineE2, LineS1old, LineE1old, LineS1bad, LineS1none>>

\* the log records of the cutoff and attribute scenarios, with one span
LogsPool == <<LineL1, LineL2old, LineL2num, LineGarbage, LineS1, LineE1, LineL2same>>

\* two spans that start at the same time or in the reverse order of their ids
SortPool == <<LineS1, LineS2, LineS2first, LineE1, LineE2>>

\* the records of the attribute, skipping and test failure scenarios
AttrsPool == <<LineS3, LineE3, LineE3bare, LineE1, LineL3, LineNoType, LineGarbage>>

\* log records with and without their ids, next to the start of span 01
IdsPool == <<LineS1, LineL1, LineLnoSpan, LineLnoTrace>>

\* span records with exception events, statuses and node outcomes
StatusPool ==
    <<LineS1, LineS4, LineE1, LineE4, LineE4ok, LineE4code, LineE5, LineE5node, LineE5ok>>

\* the records the wrapped command writes during a run
RunPool == <<LineS1, LineE1, LineL1>>

\* the records of a run whose flushes decode a span and a log together
FlushPool == <<LineS1, LineE1, LineL1>>

\* the record of a command that writes its lines in every way
TailPool == <<LineL1>>

Pool(name) ==
    CASE name = "spans" -> SpansPool
      [] name = "logs" -> LogsPool
      [] name = "attrs" -> AttrsPool
      [] name = "sort" -> SortPool
      [] name = "ids" -> IdsPool
      [] name = "status" -> StatusPool
      [] name = "run" -> RunPool
      [] name = "tail" -> TailPool
      [] name = "flush" -> FlushPool

PoolNames == {"spans", "logs", "attrs", "sort", "ids", "status"}

\* lines handed to one Decoder over all its calls: one more for the pool in
\* which two spans are to start and end
LineBudget(name) == IF name = "sort" THEN MaxLines + 1 ELSE MaxLines

\* cutoffs handed to NewDecoder: none, between the old and the new records,
\* and beyond every timestamp
Cutoffs == {0, 5, 100}

\* readings of time.Now() during a decode
NowValues == {8, 9}

\* mergeSpanStart falls back on the clock: the start time is not a number
usesClock(line) ==
    /\ line.kind = "object"
    /\ stringFrom(line.obj, "record_type") = <<"SpanStart">>
    /\ stringFrom(line.obj, "start_time_unix_nano") # EmptyStr
    /\ parseNano(stringFrom(line.obj, "start_time_unix_nano"), 0)
         # parseNano(stringFrom(line.obj, "start_time_unix_nano"), 1)

(***************************************************************************)
(* State                                                                   *)
(***************************************************************************)
VARIABLES
    pool,            \* the name of the set of lines the input is drawn from
    cutoffTimeNano,  \* Decoder.cutoffTimeNano
    spanPartials,    \* Decoder.spanPartials
    prevPartials,    \* Decoder.spanPartials as the last DecodeLines call found it
    calls,           \* the DecodeLines calls so far: per call, per line, the
                     \* index of the line in the pool and the clock it read
    outs,            \* what each call returned: [spans, logs]
    spanPartialsB,   \* a second Decoder, created with the same cutoff and
    outsB,           \* handed the same calls, and what its calls returned
    targetCmdLen,    \* len(params.TargetCmd)
    nForwarders,     \* the forwarders NewForwarders returns
    environ,         \* a.Environ(): the environment of the caller
    runParams,       \* params.LogPath and params.OtelFile
    cmdEnv,          \* cmd.Env: the environment handed to the wrapped command
    pcRun,           \* where App.Run is
    ret,             \* what App.Run returned
    cmdState,        \* the wrapped command: none, running, exited, failed (not spawned)
    cmdExitCode,     \* the exit code of the wrapped command once it has exited
    cmdErr,          \* the error cmd.Run() returned
    ctxDone,         \* the caller's context is cancelled
    tailCtxDone,     \* tailCtx is cancelled
    linesBuf,        \* the lines queued in the channel
    linesClosed,     \* the channel is closed
    panicked,        \* a goroutine panicked: the process is gone
    fileExists,      \* the log file exists
    cmdWrites,       \* how the wrapped command writes its lines, see Chunks
    fileData,        \* the bytes of the log file
    pcTail,          \* where tailOTELFile is
    openTries,       \* failed attempts to open the file
    readPos,         \* bytes of the file the reader of the Tailer has consumed
    tailLine,        \* the line the Tailer is about to send
    pushed,          \* the lines the Tailer has sent on the channel, in order
    pcFlush,         \* where flushAndUpload is
    buffer,          \* its buffer
    afterFlush,      \* what follows the flush in progress: "loop" or "exit"
    uploads,         \* the upload workers of the flush in progress: per worker
                     \* its signal, the forwarders it is through with, the
                     \* uploads it called and whether it called wg.Done()
    uploadFailed,    \* some upload returned an error
    decoded,         \* the buffers passed to DecodeLines, in flush order
    forwarder,       \* a Forwarder: its modifiers and which exporters it has
    fwCall,          \* the last call on the Forwarder: what it was handed, the
                     \* Apply calls it made, the exporters it invoked, its result
    muxExporters,    \* MultiplexExporter.exporters: per position, the guarded
                     \* exporter it holds
    mux,             \* the call in progress on the MultiplexExporter
    workers,         \* the goroutines of that call, one per position
    errCh,           \* the errors sent on errCh
    onceStart,       \* per guarded exporter: the state of its once, its startErr
    muxRet,          \* the last return of the MultiplexExporter, with what its
                     \* goroutines had done by then
    startLog,        \* per guarded exporter the runs of the underlying Start
                     \* begun and completed, and every return of its Start
    cfgForward,      \* cfg.Forward, in the order range visits its entries
    forwarders,      \* the slice NewForwarders has built so far
    slices,          \* the spans and logs slices of the flush, as DecodeLines
                     \* returned them and as the upload goroutines hold them
    exporterCalls,   \* every call made on an exporter of a forwarder, in order
    pcFleet          \* where flushAndUpload stands with its forwarders

decVars == <<pool, cutoffTimeNano, spanPartials, prevPartials, calls, outs,
             spanPartialsB, outsB>>

histVars == <<prevPartials, calls, outs, spanPartialsB, outsB>>

envVars == <<environ, runParams, cmdEnv>>

mainVars == <<targetCmdLen, nForwarders, cmdWrites, envVars, pcRun, ret>>

cmdVars == <<cmdState, cmdExitCode, cmdErr>>

fileVars == <<fileExists, fileData>>

tailVars == <<pcTail, openTries, readPos, tailLine, pushed>>

flushVars == <<pcFlush, buffer, afterFlush, uploads, uploadFailed, decoded>>

runVars == <<mainVars, cmdVars, ctxDone, tailCtxDone, linesBuf, linesClosed, panicked,
             fileVars, tailVars, flushVars>>

fleetVars == <<cfgForward, forwarders, slices, exporterCalls, pcFleet>>

fwdVars == <<forwarder, fwCall, fleetVars>>

muxVars == <<muxExporters, mux, workers, errCh, onceStart, muxRet, startLog>>

sinkVars == <<fwdVars, muxVars>>

vars == <<decVars, runVars, sinkVars>>

\* no Forwarder is under study
NoForwarder ==
    [spanAttributeModifiers |-> <<>>, logAttributeModifiers |-> <<>>,
     tracesExporter |-> FALSE, logsExporter |-> FALSE]

\* no call was made on the Forwarder yet; n counts the calls
NoCall == [op |-> "none", n |-> 0]

\* no flush has decoded records yet
NoSlices == [spans |-> <<>>, logs |-> <<>>]

\* no forwarder is configured and NewForwarders was not called
FleetIdle ==
    /\ cfgForward = <<>>
    /\ forwarders = <<>>
    /\ slices = [decoded |-> NoSlices, held |-> NoSlices]
    /\ exporterCalls = <<>>
    /\ pcFleet = [pc |-> "idle"]

ForwardIdle ==
    /\ forwarder = NoForwarder
    /\ fwCall = NoCall
    /\ FleetIdle

\* no call is in progress on the MultiplexExporter; n counts its calls
MuxNoCall == [pc |-> "idle", op |-> "none", n |-> 0]

MuxIdle ==
    /\ muxExporters = <<>>
    /\ mux = MuxNoCall
    /\ workers = <<>>
    /\ errCh = <<>>
    /\ onceStart = <<>>
    /\ muxRet = [op |-> "none"]
    /\ startLog = [ran |-> <<>>, begun |-> <<>>, returns |-> <<>>]

SinkIdle == ForwardIdle /\ MuxIdle

NoErr == [kind |-> "nil", code |-> 0]

NoRet == [returned |-> FALSE, code |-> 0]

(***************************************************************************)
(* The environment of the wrapped command.  An entry of an environment is   *)
(* a string, "NAME=value"; a name is one symbol, or several for a name that *)
(* extends another.                                                        *)
(***************************************************************************)
\* strings.HasPrefix(s, prefix)
HasPrefix(s, prefix) ==
    /\ Len(s) >= Len(prefix)
    /\ SubSeq(s, 1, Len(prefix)) = prefix

\* faulty variant of hasEnv: no variable is found set
hasEnv_Never(env, key) == FALSE

\* func hasEnv(env, key): some entry starts with key + "="
hasEnv(env, key) ==
    \E i \in 1..Len(env) : HasPrefix(env[i], key \o <<"=">>)

\* filepath.IsAbs(path) on a system whose paths are rooted at "/"
IsAbs(path) == Len(path) > 0 /\ path[1] = "/"

OtelFileKey == <<"DBT_OTEL_FILE_NAME">>

LogPathKey == <<"DBT_LOG_PATH">>

\* App.Run, lines 140-148: logDir, "." for a relative file without a directory
logDirOf(params) ==
    IF ~IsAbs(params.OtelFile) /\ params.LogPath = EmptyStr
    THEN <<".">> ELSE params.LogPath

\* App.Run, lines 150-156 and 183: the environment handed to the command
commandEnv(env, params) ==
    LET env1 == IF ~hasEnv(env, OtelFileKey)
                THEN Append(env, OtelFileKey \o <<"=">> \o params.OtelFile)
                ELSE env
    IN  IF ~hasEnv(env1, LogPathKey) /\ logDirOf(params) # EmptyStr
        THEN Append(env1, LogPathKey \o <<"=">> \o logDirOf(params))
        ELSE env1

\* entries of the environment of a caller: another variable, the two variables
\* set, one of them set to the empty string, a variable whose name extends
\* one of them, and an entry without "="
EnvEntries ==
    {<<"PATH", "=", "/", "bin">>,
     <<"DBT_OTEL_FILE_NAME", "=", "mine">>,
     <<"DBT_OTEL_FILE_NAME", "=">>,
     <<"DBT_LOG_PATH", "=", "mylogs">>,
     <<"DBT_LOG_PATH", "_X", "=", "1">>,
     <<"DBT_OTEL_FILE_NAME">>}

\* entries in the environment of a caller
MaxEnviron == 2

Environs == UNION {[1..n -> EnvEntries] : n \in 0..MaxEnviron}

\* params.LogPath and params.OtelFile: --log-path given or empty, --otel-file
\* relative or absolute
ParamsSet ==
    [LogPath : {EmptyStr, <<"logs">>},
     OtelFile : {<<"otel.jsonl">>, <<"/", "tmp", "/", "otel.jsonl">>}]

\* the caller of the runs studied for everything but the environment
UsualEnviron == <<<<"PATH", "=", "/", "bin">>>>

UsualParams == [LogPath |-> <<"logs">>, OtelFile |-> <<"otel.jsonl">>]

\* the state of a run before App.Run is called, whoever calls it
RunAtEntry ==
    /\ cmdEnv = <<>>
    /\ pcRun = "entry"
    /\ ret = NoRet
    /\ cmdState = "none"
    /\ cmdExitCode = 0
    /\ cmdErr = NoErr
    /\ ctxDone = FALSE
    /\ tailCtxDone = FALSE
    /\ linesBuf = <<>>
    /\ linesClosed = FALSE
    /\ panicked = FALSE
    /\ fileExists = FALSE
    /\ fileData = <<>>
    /\ pcTail = "none"
    /\ openTries = 0
    /\ readPos = 0
    /\ tailLine = <<>>
    /\ pushed = <<>>
    /\ pcFlush = "none"
    /\ buffer = <<>>
    /\ afterFlush = "loop"
    /\ uploads = {}
    /\ uploadFailed = FALSE
    /\ decoded = <<>>

\* the state of a run before App.Run is called by the usual caller
RunIdle ==
    /\ environ = UsualEnviron
    /\ runParams = UsualParams
    /\ cmdWrites = {"lf"}
    /\ RunAtEntry

\* func NewDecoder(cutoffTimeNano)
NewDecoder(cutoff) == [cutoffTimeNano |-> cutoff, spanPartials |-> EmptyMap]

RECURSIVE SumLens(_)
SumLens(ss) == IF ss = <<>> THEN 0 ELSE Len(Head(ss)) + SumLens(Tail(ss))

\* the lines of a call
LinesOf(call) == [i \in 1..Len(call) |-> Pool(pool)[call[i].line]]

NowsOf(call) == [i \in 1..Len(call) |-> call[i].now]

InitDecoder ==
    /\ pool \in PoolNames
    /\ cutoffTimeNano \in Cutoffs
    /\ spanPartials = NewDecoder(cutoffTimeNano).spanPartials
    /\ prevPartials = EmptyMap
    /\ calls = <<>>
    /\ outs = <<>>
    /\ spanPartialsB = NewDecoder(cutoffTimeNano).spanPartials
    /\ outsB = <<>>
    /\ targetCmdLen = 1
    /\ nForwarders = 0
    /\ RunIdle
    /\ SinkIdle

\* a line of the pool with the clock each of the two Decoders reads on it
\* (0 when the line does not make the Decoder use the clock)
Entries(name) ==
    {e \in (1..Len(Pool(name))) \X (NowValues \cup {0}) \X (NowValues \cup {0}) :
        /\ (e[2] = 0) <=> ~usesClock(Pool(name)[e[1]])
        /\ (e[3] = 0) <=> ~usesClock(Pool(name)[e[1]])}

\* one DecodeLines call on each of the two Decoders, with the same lines
DecodeLinesCall ==
    \E n \in 1..MaxBatch :
      /\ SumLens(calls) + n <= LineBudget(pool)
      /\ \E es \in [1..n -> Entries(pool)] :
           LET call == [i \in 1..n |-> [line |-> es[i][1], now |-> es[i][2]]]
               nowsB == [i \in 1..n |-> es[i][3]]
               ra == DecodeLines(spanPartials, cutoffTimeNano, LinesOf(call), NowsOf(call))
               rb == DecodeLines(spanPartialsB, cutoffTimeNano, LinesOf(call), nowsB)
           IN  /\ calls' = Append(calls, call)
               /\ prevPartials' = spanPartials
               /\ spanPartials' = ra.partials
               /\ outs' = Append(outs, [spans |-> ra.spans, logs |-> ra.logs])
               /\ spanPartialsB' = rb.partials
               /\ outsB' = Append(outsB, [spans |-> rb.spans, logs |-> rb.logs])
      /\ UNCHANGED <<pool, cutoffTimeNano, runVars, sinkVars>>

NextDecoder == DecodeLinesCall

SpecDecoder == InitDecoder /\ [][NextDecoder]_vars

(***************************************************************************)
(* The history of a Decoder, as the properties below read it               *)
(***************************************************************************)
SpanIds == {Id01, Id02}

\* the positions <<call, line>> of the lines decoded so far
Positions == UNION {{<<c, i>> : i \in 1..Len(calls[c])} : c \in 1..Len(calls)}

Before(p, q) == p[1] < q[1] \/ (p[1] = q[1] /\ p[2] < q[2])

LineAt(p) == Pool(pool)[calls[p[1]][p[2]].line]

NowAt(p) == calls[p[1]][p[2]].now

\* the line is a record: a JSON object with a record type
IsRecord(l) == l.kind = "object" /\ stringFrom(l.obj, "record_type") # EmptyStr

\* the timestamp of a record: its start time, else its time, 0 when it has none
OwnTimestamp(l) ==
    LET s == stringFrom(l.obj, "start_time_unix_nano")
        t == stringFrom(l.obj, "time_unix_nano")
    IN  IF s # EmptyStr THEN parseNano(s, 0)
        ELSE IF t # EmptyStr THEN parseNano(t, 0) ELSE 0

\* the record is older than the cutoff of the Decoder
Stale(l) == IsRecord(l) /\ 0 < OwnTimestamp(l) /\ OwnTimestamp(l) < cutoffTimeNano

\* the positions of the records of the given type of a span that pass the cutoff
SpanRecs(id, type) ==
    {p \in Positions :
        /\ IsRecord(LineAt(p))
        /\ stringFrom(LineAt(p).obj, "record_type") = type
        /\ stringFrom(LineAt(p).obj, "span_id") = id
        /\ ~Stale(LineAt(p))}

StartsOf(id) == SpanRecs(id, <<"SpanStart">>)

EndsOf(id) == SpanRecs(id, <<"SpanEnd">>)

\* the start time a SpanStart gives its span (0: none)
StartTimeAt(p) ==
    LET s == stringFrom(LineAt(p).obj, "start_time_unix_nano")
    IN  IF s # EmptyStr THEN parseNano(s, NowAt(p)) ELSE 0

\* the end time a SpanEnd gives a span started at start
EndTimeAt(p, start) ==
    LET e == stringFrom(LineAt(p).obj, "end_time_unix_nano")
        t == IF e # EmptyStr THEN parseNano(e, start) ELSE 0
    IN  IF t = 0 THEN start ELSE t

\* the spans of an id among the spans one call returned
SpansIn(c, id) ==
    {j \in 1..Len(outs[c].spans) : outs[c].spans[j].SpanId = decodeHex(id)}

RECURSIVE SpanCountTo(_, _)
SpanCountTo(c, id) ==
    IF c = 0 THEN 0 ELSE Cardinality(SpansIn(c, id)) + SpanCountTo(c - 1, id)

\* the number of spans of an id in the union of the outputs
SpanCount(id) == SpanCountTo(Len(outs), id)

\* the span has at most one SpanStart and one SpanEnd, and its SpanStart
\* carries a start time
OneStartOneEnd(id) ==
    /\ Cardinality(StartsOf(id)) <= 1
    /\ Cardinality(EndsOf(id)) <= 1
    /\ \A p \in StartsOf(id) : StartTimeAt(p) > 0

RECURSIVE FirstOccurrencesFrom(_, _)
FirstOccurrencesFrom(attrs, i) ==
    IF i > Len(attrs) THEN <<>>
    ELSE (IF \A j \in 1..(i - 1) : attrs[j].Key # attrs[i].Key THEN <<attrs[i]>> ELSE <<>>)
         \o FirstOccurrencesFrom(attrs, i + 1)

\* the entries of an attribute list that no earlier entry shares its key with
FirstOccurrences(attrs) == FirstOccurrencesFrom(attrs, 1)

(***************************************************************************)
(* Properties of the Decoder, checked under SpecDecoder                    *)
(***************************************************************************)

\* C4 (as stated): for spans with at most one SpanStart and one SpanEnd that
\* pass the cutoff, in any order and split over any calls, the union of the
\* outputs holds exactly one Span per id that has both records and none for
\* the other ids.
C4_PairingAnyInterleaving ==
    \A id \in SpanIds :
        OneStartOneEnd(id) =>
            SpanCount(id) = IF StartsOf(id) # {} /\ EndsOf(id) # {} THEN 1 ELSE 0

\* C4 (amended): under the same conditions the union of the outputs holds
\* exactly one Span per id whose SpanStart is decoded before its SpanEnd, and
\* none for an id missing a start, missing an end, or ended before it started.
C4_PairingStartBeforeEnd ==
    \A id \in SpanIds :
        OneStartOneEnd(id) =>
            SpanCount(id) = IF \E p \in StartsOf(id), q \in EndsOf(id) : Before(p, q)
                            THEN 1 ELSE 0

\* span 01 started in the first call and ended in the second, span 02 only started
C4_Witness ==
    /\ Len(calls) = 2
    /\ \A id \in SpanIds : OneStartOneEnd(id)
    /\ \E p \in StartsOf(Id01), q \in EndsOf(Id01) : p[1] < q[1]
    /\ StartsOf(Id02) # {} /\ EndsOf(Id02) = {}
    /\ SpanCount(Id01) = 1

\* C5: when the only SpanStart of a span is decoded in one call and its only
\* SpanEnd in a later call of the same Decoder, the earlier call returns no
\* Span of that id and the later call returns exactly one, with the name and
\* start time of the SpanStart, the end time of the SpanEnd, and the attributes
\* of the SpanStart followed by those of the SpanEnd.
C5_StartEndAcrossCalls ==
    \A id \in SpanIds : \A p \in StartsOf(id), q \in EndsOf(id) :
        (OneStartOneEnd(id) /\ p[1] < q[1]) =>
            /\ SpansIn(p[1], id) = {}
            /\ Cardinality(SpansIn(q[1], id)) = 1
            /\ LET x == outs[q[1]].spans[CHOOSE j \in SpansIn(q[1], id) : TRUE]
                   merged == extractAttributes(LineAt(p).obj, <<>>)
                             \o extractAttributes(LineAt(q).obj, <<>>)
               IN  /\ x.Name = stringFrom(LineAt(p).obj, "span_name")
                   /\ x.StartTimeUnixNano = StartTimeAt(p)
                   /\ x.EndTimeUnixNano = EndTimeAt(q, StartTimeAt(p))
                   /\ x.Attributes = defaultAttributeTransformer(FirstOccurrences(merged))

\* the SpanStart of span 01 decoded by the first call, its SpanEnd by the second
C5_Witness ==
    /\ Len(calls) = 2
    /\ OneStartOneEnd(Id01)
    /\ \E p \in StartsOf(Id01), q \in EndsOf(Id01) : p[1] = 1 /\ q[1] = 2
    /\ Len(outs[1].spans) = 0
    /\ Len(outs[2].spans) = 1

\* C6: a span with a SpanStart and no SpanEnd is never emitted; a span whose
\* only SpanEnd is decoded before any SpanStart of its id is kept as a partial
\* and never emitted, also after its SpanStart has arrived.
C6_UnpairedNeverEmitted ==
    \A id \in SpanIds :
        /\ (StartsOf(id) # {} /\ EndsOf(id) = {}) => SpanCount(id) = 0
        /\ \A q \in EndsOf(id) :
              (EndsOf(id) = {q} /\ \A p \in StartsOf(id) : Before(q, p)) =>
                  SpanCount(id) = 0 /\ id \in DOMAIN spanPartials

\* the SpanEnd of a span was decoded first and its SpanStart, with a start
\* time, in a later call
C6_Witness ==
    \E id \in SpanIds : \E q \in EndsOf(id), p \in StartsOf(id) :
        /\ EndsOf(id) = {q}
        /\ q[1] < p[1]
        /\ StartTimeAt(p) > 0

\* C7: two fresh Decoders with the same cutoff, handed the same lines in the
\* same calls, return the same spans and logs, field by field and in order.
C7_Determinism == outs = outsB

\* the lines of the last call that are not older than the cutoff
FreshOfLastCall ==
    LET Fresh(e) == ~Stale(Pool(pool)[e.line])
    IN  SelectSeq(calls[Len(calls)], Fresh)

LogRecordsOfLastCall ==
    Cardinality({i \in 1..Len(calls[Len(calls)]) :
        LET l == Pool(pool)[calls[Len(calls)][i].line]
        IN  /\ IsRecord(l)
            /\ stringFrom(l.obj, "record_type") = <<"LogRecord">>
            /\ stringFrom(l.obj, "trace_id") # EmptyStr
            /\ stringFrom(l.obj, "span_id") # EmptyStr})

\* with cutoff 0 every log record of the last call is returned and every span
\* record of the last call reached its partial or completed its span
NothingFiltered ==
    /\ Len(outs[Len(outs)].logs) = LogRecordsOfLastCall
    /\ \A i \in 1..Len(calls[Len(calls)]) :
          LET l == Pool(pool)[calls[Len(calls)][i].line]
              id == stringFrom(l.obj, "span_id")
          IN  (/\ IsRecord(l)
               /\ stringFrom(l.obj, "record_type") \in {<<"SpanStart">>, <<"SpanEnd">>}
               /\ id # EmptyStr)
              => (id \in DOMAIN spanPartials \/ SpansIn(Len(outs), id) # {})

AllOutputsEmpty ==
    \A c \in 1..Len(outs) : outs[c].spans = <<>> /\ outs[c].logs = <<>>

C10_AttributeDedup ==
    /\ \A id \in SpanIds : \A p \in StartsOf(id), q \in EndsOf(id) :
          (OneStartOneEnd(id) /\ Before(p, q)) =>
              \A j \in SpansIn(q[1], id) :
                  outs[q[1]].spans[j].Attributes =
                      defaultAttributeTransformer(FirstOccurrences(
                          extractAttributes(LineAt(p).obj, <<>>)
                          \o extractAttributes(LineAt(q).obj, <<>>)))
    /\ \A c \in 1..Len(calls) :
          (/\ Len(calls[c]) = 1
           /\ Len(outs[c].logs) = 1)
          => outs[c].logs[1].Attributes =
                 defaultAttributeTransformer(FirstOccurrences(
                     extractAttributes(LineAt(<<c, 1>>).obj, <<>>)))

\* no two entries of an attribute list share their key
DistinctKeys(attrs) ==
    \A i, j \in 1..Len(attrs) : attrs[i].Key = attrs[j].Key => i = j

\* C11: every Span and every LogEntry a call returns has pairwise distinct
\* attribute keys, compared case-sensitively.
C11_DistinctAttributeKeys ==
    \A c \in 1..Len(outs) :
        /\ \A j \in 1..Len(outs[c].spans) : DistinctKeys(outs[c].spans[j].Attributes)
        /\ \A j \in 1..Len(outs[c].logs) : DistinctKeys(outs[c].logs[j].Attributes)

\* the key the default transformer is to give an attribute
RenamedKey(key) ==
    IF key = <<"sql">> THEN <<"db", "statement">>
    ELSE IF Len(key) >= 2 /\ Head(key) = "dbt" THEN key
    ELSE <<"dbt">> \o key

\* out is attrs renamed entry by entry: same number, order and values
RenamedFrom(out, attrs) ==
    /\ Len(out) = Len(attrs)
    /\ \A i \in 1..Len(attrs) :
          /\ out[i].Key = RenamedKey(attrs[i].Key)
          /\ out[i].Value = attrs[i].Value

\* C12: the attributes of an emitted span are the deduplicated attributes of
\* its records, and those of an emitted log the attributes of its record, with
\* key sql renamed to db.statement, every other key not starting with dbt.
\* prefixed with dbt., keys starting with dbt. unchanged, and the number, order
\* and values of the attributes preserved.
C12_DefaultTransform ==
    /\ \A id \in SpanIds : \A p \in StartsOf(id), q \in EndsOf(id) :
          (OneStartOneEnd(id) /\ Before(p, q)) =>
              \A j \in SpansIn(q[1], id) :
                  RenamedFrom(outs[q[1]].spans[j].Attributes,
                              FirstOccurrences(extractAttributes(LineAt(p).obj, <<>>)
                                               \o extractAttributes(LineAt(q).obj, <<>>)))
    /\ \A c \in 1..Len(calls) :
          (Len(calls[c]) = 1 /\ Len(outs[c].logs) = 1) =>
              RenamedFrom(outs[c].logs[1].Attributes,
                          extractAttributes(LineAt(<<c, 1>>).obj, <<>>))

\* a span was emitted whose records hold the keys sql, SQL, k and dbt.k, and a
\* log whose record holds k and dbt.k
C12_Witness ==
    /\ \E p \in StartsOf(Id01), q \in EndsOf(Id01) :
          /\ OneStartOneEnd(Id01) /\ Before(p, q)
          /\ LineAt(p) = LineS3
          /\ \E j \in SpansIn(q[1], Id01) :
                LET x == outs[q[1]].spans[j].Attributes
                IN  {<<"db", "statement">>, <<"dbt", "SQL">>, <<"dbt", "k">>}
                        \subseteq {x[i].Key : i \in 1..Len(x)}
    /\ \E c \in 1..Len(calls) :
          /\ Len(calls[c]) = 1 /\ Len(outs[c].logs) = 1
          /\ LineAt(<<c, 1>>) = LineL3

\* the lines of the last call that are records
RecordsOfLastCall ==
    LET Rec(e) == IsRecord(Pool(pool)[e.line])
    IN  SelectSeq(calls[Len(calls)], Rec)

TestFailed(l) ==
    /\ IsRecord(l)
    /\ stringFrom(l.obj, "record_type") = <<"SpanEnd">>
    /\ LET a == objectFrom(l.obj, "attributes")
           d == objectFrom(a.m, <<"node_test_detail">>)
       IN  a.ok /\ d.ok /\ stringFrom(d.m, <<"test_outcome">>) = <<"TEST_OUTCOME_FAILED">>

\* the failing row count of such a record, 0 when it gives none
FailingRowsOf(l) ==
    LET d == l.obj["attributes"].v[<<"node_test_detail">>].v
    IN  IF <<"failing_rows">> \in DOMAIN d /\ d[<<"failing_rows">>].t = "number"
        THEN d[<<"failing_rows">>].v ELSE 0

\* sub occurs in s
Contains(s, sub) ==
    \E i \in 0..(Len(s) - Len(sub)) : SubSeq(s, i + 1, i + Len(sub)) = sub

\* the event is an exception with a type and a message naming the row count
ExceptionNaming(e, rows) ==
    /\ e.Name = <<"exception">>
    /\ \E i \in 1..Len(e.Attributes) : e.Attributes[i].Key = <<"exception", "type">>
    /\ \E i \in 1..Len(e.Attributes) :
          /\ e.Attributes[i].Key = <<"exception", "message">>
          /\ e.Attributes[i].Value.kind = "StringValue"
          /\ Contains(e.Attributes[i].Value.val, fmtInt(rows))

\* the SpanEnd records of a span in one call that pass the cutoff
EndsIn(c, id) == {q \in EndsOf(id) : q[1] = c}

\* C14: a span returned by a call in which every SpanEnd of its id carries a
\* failed test outcome has status code ERROR, whatever status the records
\* carried, and an exception event with an exception.type attribute and an
\* exception.message naming the failing row count of such a record.
C14_TestFailureException ==
    \A c \in 1..Len(calls) : \A id \in SpanIds :
        (\A q \in EndsIn(c, id) : TestFailed(LineAt(q))) =>
            \A j \in SpansIn(c, id) :
                LET x == outs[c].spans[j]
                IN  /\ Len(x.Status) = 1
                    /\ x.Status[1].Code = STATUS_CODE_ERROR
                    /\ \E q \in EndsIn(c, id) : \E k \in 1..Len(x.Events) :
                          ExceptionNaming(x.Events[k], FailingRowsOf(LineAt(q)))

\* a span was returned whose SpanEnd carried status code 1 and a test that
\* failed on 3 rows
C14_Witness ==
    \E c \in 1..Len(calls) :
        /\ SpansIn(c, Id01) # {}
        /\ EndsIn(c, Id01) # {}
        /\ \A q \in EndsIn(c, Id01) : LineAt(q) = LineE3
        /\ getInt(LineE3.obj["status"].v, "code") = 1
        /\ FailingRowsOf(LineE3) = 3

\* the line is a LogRecord
IsLogRecord(l) == IsRecord(l) /\ stringFrom(l.obj, "record_type") = <<"LogRecord">>

\* the lines of the last call that are not LogRecords
NonLogsOfLastCall ==
    LET NonLog(e) == ~IsLogRecord(Pool(pool)[e.line])
    IN  SelectSeq(calls[Len(calls)], NonLog)

\* the LogRecords of the last call that pass the cutoff and carry both ids
LogsWithIdsOfLastCall ==
    {i \in 1..Len(calls[Len(calls)]) :
        LET l == Pool(pool)[calls[Len(calls)][i].line]
        IN  /\ IsLogRecord(l) /\ ~Stale(l)
            /\ stringFrom(l.obj, "trace_id") # EmptyStr
            /\ stringFrom(l.obj, "span_id") # EmptyStr}

\* C32: a call returns one LogEntry per LogRecord that passes the cutoff and
\* carries both a trace id and a span id, and none for the others; the
\* partials it leaves and the spans it returns are those of the call without
\* its LogRecords.
C32_LogRecordFrame ==
    Len(calls) > 0 =>
        LET r == DecodeLines(prevPartials, cutoffTimeNano,
                             LinesOf(NonLogsOfLastCall), NowsOf(NonLogsOfLastCall))
        IN  /\ spanPartials = r.partials
            /\ outs[Len(outs)].spans = r.spans
            /\ Len(outs[Len(outs)].logs) = Cardinality(LogsWithIdsOfLastCall)
            /\ NonLogsOfLastCall = <<>> => spanPartials = prevPartials

\* span 01 had a partial; the last call decoded a LogRecord of span 01 and
\* one without a span id, returned the first only and left the partials as
\* they were
C32_Witness ==
    /\ Len(calls) = 2
    /\ Id01 \in DOMAIN prevPartials
    /\ \E i, j \in 1..Len(calls[2]) :
          /\ LineAt(<<2, i>>) = LineL1
          /\ LineAt(<<2, j>>) = LineLnoSpan
    /\ Len(outs[2].logs) = 1
    /\ spanPartials = prevPartials

\* the decode state of the last call after its first i lines
ReplayTo(i) ==
    decodeLoop([partials |-> prevPartials, spans |-> <<>>, logs |-> <<>>],
               SubSeq(LinesOf(calls[Len(calls)]), 1, i),
               SubSeq(NowsOf(calls[Len(calls)]), 1, i), cutoffTimeNano, 1)

\* the line is a SpanEnd that passes the cutoff, of a span whose partial in
\* the given map has a start time
EndsStartedSpan(l, partials) ==
    /\ IsRecord(l) /\ ~Stale(l)
    /\ stringFrom(l.obj, "record_type") = <<"SpanEnd">>
    /\ stringFrom(l.obj, "span_id") \in DOMAIN partials
    /\ partials[stringFrom(l.obj, "span_id")].start > 0

\* C33: line by line through every call, a SpanEnd that passes the cutoff and
\* whose span has a partial with a start time removes that partial, and no
\* other, and adds one Span of that id to the spans of the call; every other
\* line removes no partial and adds no Span.
C33_RemovedExactlyWhenEmitted ==
    Len(calls) > 0 =>
        LET n == Len(calls[Len(calls)]) IN
        /\ ReplayTo(n).partials = spanPartials
        /\ Len(outs[Len(outs)].spans) = Len(ReplayTo(n).spans)
        /\ \A i \in 1..n :
              LET before == ReplayTo(i - 1)
                  after == ReplayTo(i)
                  l == Pool(pool)[calls[Len(calls)][i].line]
              IN  IF EndsStartedSpan(l, before.partials)
                  THEN /\ DOMAIN after.partials
                            = DOMAIN before.partials \ {stringFrom(l.obj, "span_id")}
                       /\ \A id \in DOMAIN after.partials :
                             after.partials[id] = before.partials[id]
                       /\ Len(after.spans) = Len(before.spans) + 1
                       /\ SubSeq(after.spans, 1, Len(before.spans)) = before.spans
                       /\ after.spans[Len(after.spans)].SpanId
                            = decodeHex(stringFrom(l.obj, "span_id"))
                  ELSE /\ DOMAIN before.partials \subseteq DOMAIN after.partials
                       /\ after.spans = before.spans

\* span 01 was started by an earlier call; the last call decoded the SpanEnd
\* of span 01, which removed its partial and emitted it, and the SpanEnd of
\* span 02, never started, which was kept as a partial
C33_Witness ==
    /\ Len(calls) = 2
    /\ Id01 \in DOMAIN prevPartials /\ prevPartials[Id01].start > 0
    /\ Id02 \notin DOMAIN prevPartials
    /\ \E i, j \in 1..Len(calls[2]) :
          /\ LineAt(<<2, i>>) = LineE1
          /\ LineAt(<<2, j>>) = LineE2
    /\ Id01 \notin DOMAIN spanPartials
    /\ Id02 \in DOMAIN spanPartials
    /\ Len(outs[2].spans) = 1

\* the line is a SpanEnd whose attributes carry a node outcome other than
\* success
NodeFailed(l) ==
    /\ IsRecord(l)
    /\ stringFrom(l.obj, "record_type") = <<"SpanEnd">>
    /\ LET a == objectFrom(l.obj, "attributes")
       IN  /\ a.ok
           /\ stringFrom(a.m, <<"node_outcome">>) # EmptyStr
           /\ stringFrom(a.m, <<"node_outcome">>) # <<"NODE_OUTCOME_SUCCESS">>

\* the status code and message a record carries in its status field
RecordCode(l) == getInt(objectFrom(l.obj, "status").m, "code")

RecordMessage(l) == stringFrom(objectFrom(l.obj, "status").m, "message")

\* the events of the records at p and q that are named exception, in order
ExceptionEvents(p, q) ==
    LET IsException(e) == e.Name = <<"exception">>
    IN  SelectSeq(extractEvents(LineAt(p).obj) \o extractEvents(LineAt(q).obj), IsException)

\* a status code is set on the partial of a span started at p and ended at q
CodeSet(p, q) ==
    \/ RecordCode(LineAt(q)) > 0
    \/ ExceptionEvents(p, q) # <<>>
    \/ TestFailed(LineAt(q))
    \/ NodeFailed(LineAt(q))

\* C34: every Span returned has a start time other than 0, an end time other
\* than 0, and a status only with a code other than unset; the Span of a span
\* with one SpanStart and one SpanEnd after it has the start time of the
\* SpanStart, the end time of the SpanEnd or, when that gives none, its start
\* time, and a status exactly when the SpanEnd carries a status code, an
\* exception event was accumulated, or a test or node failure was synthesized.
C34_EmittedSpanShape ==
    /\ \A c \in 1..Len(outs) : \A j \in 1..Len(outs[c].spans) :
          LET x == outs[c].spans[j]
          IN  /\ x.StartTimeUnixNano > 0
              /\ x.EndTimeUnixNano # 0
              /\ Len(x.Status) <= 1
              /\ \A k \in 1..Len(x.Status) : x.Status[k].Code # STATUS_CODE_UNSET
    /\ \A id \in SpanIds : \A p \in StartsOf(id), q \in EndsOf(id) :
          (OneStartOneEnd(id) /\ Before(p, q)) =>
              \A j \in SpansIn(q[1], id) :
                  LET x == outs[q[1]].spans[j]
                  IN  /\ x.StartTimeUnixNano = StartTimeAt(p)
                      /\ x.EndTimeUnixNano = EndTimeAt(q, StartTimeAt(p))
                      /\ (Len(x.Status) = 1) <=> CodeSet(p, q)

\* a span was returned whose SpanStart carried no event and whose SpanEnd
\* carried neither an end time nor a status: it ends when it starts and has
\* no status
C34_Witness ==
    \E p \in StartsOf(Id01), q \in EndsOf(Id01) :
        /\ OneStartOneEnd(Id01) /\ Before(p, q)
        /\ LineAt(p) = LineS1 /\ LineAt(q) = LineE4
        /\ \E j \in SpansIn(q[1], Id01) :
              /\ outs[q[1]].spans[j].EndTimeUnixNano = 7
              /\ outs[q[1]].spans[j].Status = <<>>

\* the status the record at q and the exception events accumulated from p and
\* q give a span: the code of the record, else ERROR for an exception event;
\* the message of the record, else that of the first exception event
StatusByException(p, q) ==
    LET ex == ExceptionEvents(p, q)
        code == RecordCode(LineAt(q))
        msg == RecordMessage(LineAt(q))
        message == IF msg # EmptyStr THEN msg
                   ELSE IF ex # <<>> THEN exceptionMessageOf(ex[1]) ELSE EmptyStr
    IN  IF code > 0 THEN <<[Code |-> code, Message |-> message]>>
        ELSE IF ex # <<>> THEN <<[Code |-> STATUS_CODE_ERROR, Message |-> message]>>
        ELSE <<>>

\* C35: the Span of a span with one SpanStart and one SpanEnd after it, whose
\* SpanEnd synthesizes no failure, has the status code of its SpanEnd when
\* that carries one; else ERROR when an event named exception was accumulated
\* from the two records; else no status; its status message is the message
\* of the SpanEnd when that carries one, else the exception.message of the
\* first such event.
C35_ExceptionEventStatus ==
    \A id \in SpanIds : \A p \in StartsOf(id), q \in EndsOf(id) :
        (/\ OneStartOneEnd(id) /\ Before(p, q)
         /\ ~TestFailed(LineAt(q)) /\ ~NodeFailed(LineAt(q))) =>
            \A j \in SpansIn(q[1], id) :
                outs[q[1]].spans[j].Status = StatusByException(p, q)

\* a span was returned whose SpanStart carried an exception event with the
\* message boom and whose SpanEnd carried status code 1 without a message: its
\* status is code 1 with the message boom
C35_Witness ==
    \E p \in StartsOf(Id01), q \in EndsOf(Id01) :
        /\ OneStartOneEnd(Id01) /\ Before(p, q)
        /\ LineAt(p) = LineS4 /\ LineAt(q) = LineE4code
        /\ \E j \in SpansIn(q[1], Id01) :
              outs[q[1]].spans[j].Status = <<[Code |-> 1, Message |-> <<"boom">>]>>

\* the string value of the first attribute of an event under key, "" if none
EventAttr(e, key) ==
    LET hits == {i \in 1..Len(e.Attributes) :
                    e.Attributes[i].Key = key /\ e.Attributes[i].Value.kind = "StringValue"}
    IN  IF hits = {} THEN EmptyStr
        ELSE e.Attributes[CHOOSE i \in hits : \A j \in hits : i <= j].Value.val

\* the positions of the events of a Span that are exceptions of the given type
ExceptionsOfType(x, type) ==
    {k \in 1..Len(x.Events) :
        /\ x.Events[k].Name = <<"exception">>
        /\ EventAttr(x.Events[k], <<"exception", "type">>) = <<type>>}

\* the node outcome a SpanEnd carries
NodeOutcomeOf(l) == stringFrom(objectFrom(l.obj, "attributes").m, <<"node_outcome">>)

\* C36: the Span of a span with one SpanStart and one SpanEnd after it holds
\* one exception event of type dbt.NodeEvaluationFailure when the SpanEnd
\* carries a node outcome other than success, and none otherwise, whether or
\* not the test of the SpanEnd failed; that event is timed at the end time of
\* the SpanEnd, its message and its dbt.node.outcome attribute name the outcome, and
\* the status of the Span is ERROR; a SpanEnd with a failed test and a failed
\* node gives the Span two synthesized events, the one of the test first,
\* after the events of the records.
C36_NodeFailureException ==
    \A id \in SpanIds : \A p \in StartsOf(id), q \in EndsOf(id) :
        (OneStartOneEnd(id) /\ Before(p, q)) =>
            \A j \in SpansIn(q[1], id) :
                LET x == outs[q[1]].spans[j]
                    l == LineAt(q)
                    node == ExceptionsOfType(x, "dbt.NodeEvaluationFailure")
                    test == ExceptionsOfType(x, "dbt.TestFailure")
                    given == Len(extractEvents(LineAt(p).obj)) + Len(extractEvents(l.obj))
                IN  /\ Cardinality(node) = IF NodeFailed(l) THEN 1 ELSE 0
                    /\ Cardinality(test) = IF TestFailed(l) THEN 1 ELSE 0
                    /\ Len(x.Events) = given + Cardinality(node) + Cardinality(test)
                    /\ \A k \in node :
                          /\ k = Len(x.Events)
                          /\ x.Events[k].TimeUnixNano = EndTimeAt(q, 0)
                          /\ Contains(EventAttr(x.Events[k], <<"exception", "message">>),
                                      NodeOutcomeOf(l))
                          /\ EventAttr(x.Events[k], <<"dbt", "node", "outcome">>)
                               = NodeOutcomeOf(l)
                          /\ Len(x.Status) = 1
                          /\ x.Status[1].Code = STATUS_CODE_ERROR
                    /\ \A k \in test : k = given + 1

\* a span was returned whose SpanEnd carried a failed test and a failed node:
\* it holds two exception events, of the test and then of the node, and its
\* status is ERROR
C36_Witness ==
    \E p \in StartsOf(Id01), q \in EndsOf(Id01) :
        /\ OneStartOneEnd(Id01) /\ Before(p, q)
        /\ LineAt(p) = LineS1 /\ LineAt(q) = LineE5
        /\ \E j \in SpansIn(q[1], Id01) :
              LET x == outs[q[1]].spans[j]
              IN  /\ Len(x.Events) = 2
                  /\ ExceptionsOfType(x, "dbt.TestFailure") = {1}
                  /\ ExceptionsOfType(x, "dbt.NodeEvaluationFailure") = {2}
                  /\ x.Status[1].Code = STATUS_CODE_ERROR

\* what the last call completed and decoded, in the order of its lines
UnsortedOfLastCall ==
    decodeLoop([partials |-> prevPartials, spans |-> <<>>, logs |-> <<>>],
               LinesOf(calls[Len(calls)]), NowsOf(calls[Len(calls)]), cutoffTimeNano, 1)

\* a and b hold the same elements, each as many times
IsPermutation(a, b) ==
    /\ Len(a) = Len(b)
    /\ \A i \in 1..Len(a) :
          Cardinality({j \in 1..Len(a) : a[j] = a[i]})
            = Cardinality({j \in 1..Len(b) : b[j] = a[i]})

\* byte string a is not after byte string b in lexicographic order
LexLeq(a, b) ==
    \/ \E i \in 1..Len(a) :
          /\ i <= Len(b)
          /\ \A j \in 1..(i - 1) : a[j] = b[j]
          /\ a[i] < b[i]
    \/ /\ Len(a) <= Len(b)
       /\ \A j \in 1..Len(a) : a[j] = b[j]

\* pairs of positions of seq, the first before the second
Pairs(seq) == {p \in (1..Len(seq)) \X (1..Len(seq)) : p[1] < p[2]}

\* spans is ascending by (start time, span id)
SpansAscending(spans) ==
    \A p \in Pairs(spans) :
        \/ spans[p[1]].StartTimeUnixNano < spans[p[2]].StartTimeUnixNano
        \/ /\ spans[p[1]].StartTimeUnixNano = spans[p[2]].StartTimeUnixNano
           /\ LexLeq(spans[p[1]].SpanId, spans[p[2]].SpanId)

\* logs is ascending by (time, span id)
LogsAscending(logs) ==
    \A p \in Pairs(logs) :
        \/ logs[p[1]].TimeUnixNano < logs[p[2]].TimeUnixNano
        \/ /\ logs[p[1]].TimeUnixNano = logs[p[2]].TimeUnixNano
           /\ LexLeq(logs[p[1]].SpanId, logs[p[2]].SpanId)

\* C30: the spans a DecodeLines call returns are a permutation of the spans
\* completed in that call, ascending by (start time, span id bytes in
\* lexicographic order); the logs it returns are a permutation of the logs it
\* decoded, ascending by (time, span id bytes).
C30_SortedOutput ==
    Len(calls) > 0 =>
        LET out == outs[Len(outs)] IN
        /\ IsPermutation(out.spans, UnsortedOfLastCall.spans)
        /\ SpansAscending(out.spans)
        /\ IsPermutation(out.logs, UnsortedOfLastCall.logs)
        /\ LogsAscending(out.logs)

\* a call completed span 02 and then span 01, both started at the same time,
\* and returned span 01 first
C30_Witness ==
    /\ Len(calls) > 0
    /\ Len(outs[Len(outs)].spans) = 2
    /\ outs[Len(outs)].spans # UnsortedOfLastCall.spans
    /\ outs[Len(outs)].spans[1].StartTimeUnixNano
         = outs[Len(outs)].spans[2].StartTimeUnixNano
    /\ outs[Len(outs)].spans[1].SpanId = decodeHex(Id01)
    /\ outs[Len(outs)].spans[2].SpanId = decodeHex(Id02)

(***************************************************************************)
(* The run: App.Run, the wrapped command, tailOTELFile and flushAndUpload.  *)
(* The process ends when Run returns (main.go exits with its result) and   *)
(* when a goroutine panics.                                                *)
(***************************************************************************)
\* exit codes of the wrapped command, as ProcessState.ExitCode() reports them
ExitCodes == {0, 1, 2}

\* ExitCode() of a command killed through its context
KilledCode == -1

\* time.Now() at the start of the run, between the time of the records of an
\* earlier run and the time of the records of this one
RunCutoff == 5

processGone == panicked \/ pcRun = "returned"

\* cmd.Run(): nil for exit code 0, an *exec.ExitError for any other exit code
exitResult(code) == IF code = 0 THEN NoErr ELSE [kind |-> "ExitError", code |-> code]

\* cmd.Run() when the command cannot be started
startFailure == [kind |-> "other", code |-> 0]

\* faulty variant of noTargetCmd: the check of the target command is missing
noTargetCmd_Never(n) == FALSE

\* App.Run, line 135: no target command was given
noTargetCmd(n) == n = 0

\* faulty variant of runResult: every error of cmd.Run() gives 1
runResult_AnyErrorIsOne(err) == IF err.kind # "nil" THEN 1 ELSE 0

\* App.Run, lines 208-217: the value Run returns for the error of cmd.Run()
runResult(err) ==
    IF err.kind # "nil"
    THEN IF err.kind = "ExitError" THEN err.code ELSE 1
    ELSE 0

(***************************************************************************)
(* The log file.  The text of a record is two symbols, its first and its    *)
(* second half; a line of the file is a text, an optional "\r" and "\n".    *)
(***************************************************************************)
\* the halves of the texts of the records of a pool
Halves == <<<<"{1", "1}">>, <<"{2", "2}">>, <<"{3", "3}">>>>

\* the text of record l of the pool
LineText(l) == Halves[l]

\* json.Unmarshal of a line: the record whose text it is; a part of the text
\* of a record is not JSON
jsonOf(text) ==
    IF \E l \in 1..Len(Pool(pool)) : text = LineText(l)
    THEN Pool(pool)[CHOOSE l \in 1..Len(Pool(pool)) : text = LineText(l)]
    ELSE LineGarbage

\* the line terminators in data
Newlines(data) == {i \in 1..Len(data) : data[i] = "\n"}

\* the bytes after the last line terminator: a line the command has begun
Fragment(data) ==
    LET from == IF Newlines(data) = {} THEN 0
                ELSE CHOOSE i \in Newlines(data) : \A j \in Newlines(data) : j <= i
    IN  SubSeq(data, from + 1, Len(data))

\* lines the command writes: one more in the run in which a flush is to
\* decode a span and a log together
FileBudget(name) == IF name = "flush" THEN MaxFileLines + 1 ELSE MaxFileLines

\* what the command may append to the file: the end of the line it has begun;
\* else a whole line ended by "\n", or by "\r\n", an empty line, or the first
\* half of a line, as far as it writes so; MaxFileLines lines at most
Chunks(data, writes) ==
    IF Fragment(data) # EmptyStr
    THEN {<<LineText(l)[2], "\n">> : l \in {k \in 1..Len(Pool(pool)) :
                                                Fragment(data) = <<LineText(k)[1]>>}}
    ELSE IF Cardinality(Newlines(data)) >= FileBudget(pool) THEN {}
    ELSE UNION {
        IF "lf" \in writes THEN {LineText(l) \o <<"\n">> : l \in 1..Len(Pool(pool))} ELSE {},
        IF "crlf" \in writes THEN {LineText(l) \o <<"\r", "\n">> : l \in 1..Len(Pool(pool))}
        ELSE {},
        IF "blank" \in writes THEN {<<"\n">>} ELSE {},
        IF "split" \in writes THEN {<<LineText(l)[1]>> : l \in 1..Len(Pool(pool))} ELSE {}}

\* bufio.Reader.ReadString('\n') at offset pos: the bytes up to and with the
\* next "\n"; when there is none, the bytes left and io.EOF
ReadString(data, pos) ==
    LET ahead == {i \in Newlines(data) : i > pos} IN
    IF ahead = {}
    THEN [line |-> SubSeq(data, pos + 1, Len(data)), eof |-> TRUE]
    ELSE [line |-> SubSeq(data, pos + 1, CHOOSE i \in ahead : \A j \in ahead : i <= j),
          eof |-> FALSE]

\* strings.TrimSuffix(s, suffix)
TrimSuffix(s, suffix) ==
    IF Len(s) >= Len(suffix) /\ SubSeq(s, Len(s) - Len(suffix) + 1, Len(s)) = suffix
    THEN SubSeq(s, 1, Len(s) - Len(suffix))
    ELSE s

InitRun ==
    /\ pool = "run"
    /\ cutoffTimeNano = RunCutoff
    /\ spanPartials = EmptyMap
    /\ prevPartials = EmptyMap
    /\ calls = <<>>
    /\ outs = <<>>
    /\ spanPartialsB = EmptyMap
    /\ outsB = <<>>
    /\ targetCmdLen \in {0, 1}
    /\ nForwarders \in {0, 1}
    /\ RunIdle
    /\ SinkIdle

\* App.Run, lines 135-178: the check of the target command, then the start of
\* the Tailer and of the consumption loop
RunEntry ==
    /\ pcRun = "entry"
    /\ IF noTargetCmd(targetCmdLen)
       THEN /\ ret' = [returned |-> TRUE, code |-> 1]
            /\ pcRun' = "returned"
            /\ UNCHANGED <<cmdEnv, pcTail, pcFlush>>
       ELSE /\ cmdEnv' = commandEnv(environ, runParams)
            /\ pcRun' = "exec"
            /\ pcTail' = "open"
            /\ pcFlush' = "start"
            /\ UNCHANGED ret
    /\ UNCHANGED <<decVars, sinkVars, targetCmdLen, nForwarders, cmdWrites, environ, runParams,
                   cmdVars, ctxDone, tailCtxDone,
                   linesBuf, linesClosed, panicked, fileVars, openTries, readPos,
                   tailLine, pushed, buffer, afterFlush, uploads, uploadFailed, decoded>>

\* App.Run, line 187: cmd.Run() starts the command, or fails to
CmdSpawn ==
    /\ pcRun = "exec" /\ ~processGone
    /\ \/ /\ cmdState' = "running"
          /\ pcRun' = "cmdwait"
          /\ UNCHANGED cmdErr
       \/ /\ cmdState' = "failed"
          /\ cmdErr' = startFailure
          /\ pcRun' = "sleep"
    /\ UNCHANGED <<decVars, sinkVars, targetCmdLen, nForwarders, cmdWrites, envVars, ret, cmdExitCode, ctxDone,
                   tailCtxDone, linesBuf, linesClosed, panicked, fileVars, tailVars,
                   flushVars>>

\* the running command creates the log file if need be and appends the bytes
\* of a line, or of a part of a line when it writes its lines in parts
CmdWriteLine ==
    /\ cmdState = "running" /\ ~processGone
    /\ \E chunk \in Chunks(fileData, cmdWrites) :
          /\ fileData' = fileData \o chunk
          /\ fileExists' = TRUE
    /\ UNCHANGED <<decVars, sinkVars, mainVars, cmdVars, ctxDone, tailCtxDone, linesBuf,
                   linesClosed, panicked, tailVars, flushVars>>

\* App.Run, line 187: the command exits and cmd.Run() returns
CmdExit ==
    /\ pcRun = "cmdwait" /\ cmdState = "running" /\ ~processGone
    /\ \E code \in ExitCodes \cup (IF ctxDone THEN {KilledCode} ELSE {}) :
          /\ cmdExitCode' = code
          /\ cmdErr' = exitResult(code)
    /\ cmdState' = "exited"
    /\ pcRun' = "sleep"
    /\ UNCHANGED <<decVars, sinkVars, targetCmdLen, nForwarders, cmdWrites, envVars, ret, ctxDone, tailCtxDone,
                   linesBuf, linesClosed, panicked, fileVars, tailVars, flushVars>>

\* App.Run, line 188: time.Sleep(100ms)
RunSettle ==
    /\ pcRun = "sleep" /\ ~processGone
    /\ pcRun' = "cancel"
    /\ UNCHANGED <<decVars, sinkVars, targetCmdLen, nForwarders, cmdWrites, envVars, ret, cmdVars, ctxDone,
                   tailCtxDone, linesBuf, linesClosed, panicked, fileVars, tailVars,
                   flushVars>>

\* App.Run, line 189: tailCancel()
RunCancelTail ==
    /\ pcRun = "cancel" /\ ~processGone
    /\ tailCtxDone' = TRUE
    /\ pcRun' = "close"
    /\ UNCHANGED <<decVars, sinkVars, targetCmdLen, nForwarders, cmdWrites, envVars, ret, cmdVars, ctxDone,
                   linesBuf, linesClosed, panicked, fileVars, tailVars, flushVars>>

\* App.Run, line 191: close(lines)
RunCloseLines ==
    /\ pcRun = "close" /\ ~processGone
    /\ linesClosed' = TRUE
    /\ pcRun' = "select"
    /\ UNCHANGED <<decVars, sinkVars, targetCmdLen, nForwarders, cmdWrites, envVars, ret, cmdVars, ctxDone,
                   tailCtxDone, linesBuf, panicked, fileVars, tailVars, flushVars>>

\* App.Run, lines 201-217: what follows the select on done and the timer
RunReturn ==
    /\ ret' = [returned |-> TRUE, code |-> runResult(cmdErr)]
    /\ pcRun' = "returned"
    /\ tailCtxDone' = TRUE
    /\ UNCHANGED <<decVars, sinkVars, targetCmdLen, nForwarders, cmdWrites, envVars, cmdVars, ctxDone, linesBuf,
                   linesClosed, panicked, fileVars, tailVars, flushVars>>

\* App.Run, lines 195-203: both workers have finished, wg.Wait() returns and
\* done is closed
RunDrained ==
    /\ pcRun = "select" /\ ~processGone
    /\ pcTail = "done" /\ pcFlush = "done"
    /\ RunReturn

\* App.Run, lines 204-205: time.After(params.FlushTimeout) fires
RunDrainTimeout ==
    /\ pcRun = "select" /\ ~processGone
    /\ RunReturn

\* the caller's context is cancelled (SIGINT, SIGTERM); tailCtx derives from it
Interrupt ==
    /\ ~ctxDone /\ ~processGone
    /\ ctxDone' = TRUE
    /\ tailCtxDone' = TRUE
    /\ UNCHANGED <<decVars, sinkVars, mainVars, cmdVars, linesBuf, linesClosed, panicked,
                   fileVars, tailVars, flushVars>>

(***************************************************************************)
(* tailOTELFile                                                            *)
(***************************************************************************)
tailFrame == <<decVars, sinkVars, mainVars, cmdVars, ctxDone, tailCtxDone, fileVars, flushVars>>

\* faulty variant of moreAttempts: the Tailer tries for ever
moreAttempts_Always(i) == TRUE

\* tailOTELFile, line 227: the condition of the loop that opens the file
moreAttempts(i) == i < OpenAttempts

\* tailOTELFile, lines 227-231 and 245: os.Open succeeds
TailOpened ==
    /\ pcTail = "open" /\ ~processGone
    /\ fileExists
    /\ pcTail' = "loop"
    /\ UNCHANGED <<tailFrame, linesBuf, linesClosed, panicked, openTries, readPos, tailLine,
                   pushed>>

\* tailOTELFile, lines 227-242: os.Open fails; the select then takes the
\* cancellation, or the 100ms timer and the next attempt, the last of which
\* gives up
TailOpenFailed ==
    /\ pcTail = "open" /\ ~processGone
    /\ ~fileExists
    /\ \/ /\ tailCtxDone
          /\ pcTail' = "done"
          /\ UNCHANGED openTries
       \/ /\ openTries' = openTries + 1
          /\ pcTail' = IF moreAttempts(openTries + 1) THEN "open" ELSE "done"
    /\ UNCHANGED <<tailFrame, linesBuf, linesClosed, panicked, readPos, tailLine, pushed>>

\* tailOTELFile, lines 250-289: the cancellation check at the top of the loop,
\* then ReadString: at end of file what was read is dropped and the Tailer
\* waits; a line is trimmed, skipped when empty, else it is the line to send
TailRead ==
    /\ pcTail = "loop" /\ ~processGone
    /\ IF tailCtxDone
       THEN /\ pcTail' = "done"
            /\ UNCHANGED <<readPos, tailLine>>
       ELSE LET r == ReadString(fileData, readPos)
                line == TrimSuffix(TrimSuffix(r.line, <<"\n">>), <<"\r">>)
            IN  /\ readPos' = readPos + Len(r.line)
                /\ IF r.eof
                   THEN /\ pcTail' = "eof"
                        /\ UNCHANGED tailLine
                   ELSE IF line = EmptyStr
                   THEN UNCHANGED <<pcTail, tailLine>>
                   ELSE /\ pcTail' = "send"
                        /\ tailLine' = line
    /\ UNCHANGED <<tailFrame, linesBuf, linesClosed, panicked, openTries, pushed>>

\* tailOTELFile, lines 268-275: at end of file the select takes the
\* cancellation or the 100ms timer
TailEofWait ==
    /\ pcTail = "eof" /\ ~processGone
    /\ \/ /\ tailCtxDone
          /\ pcTail' = "done"
       \/ pcTail' = "loop"
    /\ UNCHANGED <<tailFrame, linesBuf, linesClosed, panicked, openTries, readPos, tailLine,
                   pushed>>

\* the send case of a select on a closed channel panics when it is the case chosen
sendOnClosedPanics == TRUE

\* tailOTELFile, lines 290-296: select on the send of the line and on the
\* cancellation; the runtime picks among the cases that are ready
TailSend ==
    /\ pcTail = "send" /\ ~processGone
    /\ \/ /\ linesClosed /\ sendOnClosedPanics
          /\ panicked' = TRUE
          /\ UNCHANGED <<linesBuf, pcTail, tailLine, pushed>>
       \/ /\ ~linesClosed
          /\ Len(linesBuf) < LinesCap
          /\ linesBuf' = Append(linesBuf, tailLine)
          /\ pushed' = Append(pushed, tailLine)
          /\ pcTail' = "loop"
          /\ tailLine' = <<>>
          /\ UNCHANGED panicked
       \/ /\ tailCtxDone
          /\ pcTail' = "done"
          /\ UNCHANGED <<linesBuf, panicked, tailLine, pushed>>
    /\ UNCHANGED <<tailFrame, linesClosed, openTries, readPos>>

(***************************************************************************)
(* flushAndUpload                                                          *)
(***************************************************************************)
flushFrame == <<pool, cutoffTimeNano, histVars, sinkVars, mainVars, cmdVars, ctxDone, tailCtxDone,
                linesClosed, panicked, fileVars, tailVars>>

Zeros(n) == [i \in 1..n |-> 0]

\* DecodeLines, json.Unmarshal of each line of the buffer
BufferLines(buf) == [i \in 1..Len(buf) |-> jsonOf(buf[i])]

\* where the consumption loop goes after a flush
afterFlushPc(after) == IF after = "exit" THEN "stop" ELSE "select"

\* flushAndUpload, lines 302-317: the forwarders, the Decoder, the buffer
FlushStart ==
    /\ pcFlush = "start" /\ ~processGone
    /\ spanPartials' = NewDecoder(cutoffTimeNano).spanPartials
    /\ buffer' = <<>>
    /\ pcFlush' = "select"
    /\ UNCHANGED <<flushFrame, linesBuf, afterFlush, uploads, uploadFailed, decoded>>

\* faulty variant of thresholdReached: the buffer is flushed one line late
thresholdReached_Late(n) == n > FlushThreshold

\* flushAndUpload, line 400: the buffer has reached the threshold
thresholdReached(n) == n >= FlushThreshold

\* faulty variant of drained: the close is seen while lines are still queued
drained_AtClose(queue, closed) == closed

\* flushAndUpload, lines 391-392: the receive finds the channel closed, which
\* it does once every queued line has been received
drained(queue, closed) == closed /\ Len(queue) = 0

\* flushAndUpload, lines 391-402: a line is received; at the threshold flush()
\* is called
FlushReceive ==
    /\ pcFlush = "select" /\ ~processGone
    /\ Len(linesBuf) > 0
    /\ linesBuf' = Tail(linesBuf)
    /\ buffer' = Append(buffer, Head(linesBuf))
    /\ IF thresholdReached(Len(buffer) + 1)
       THEN /\ pcFlush' = "flush"
            /\ afterFlush' = "loop"
       ELSE UNCHANGED <<pcFlush, afterFlush>>
    /\ UNCHANGED <<flushFrame, spanPartials, uploads, uploadFailed, decoded>>

\* flushAndUpload, lines 392-398: the channel is closed and drained; the final
\* flush() is called, and the loop returns after it
FlushLinesClosed ==
    /\ pcFlush = "select" /\ ~processGone
    /\ drained(linesBuf, linesClosed)
    /\ pcFlush' = "flush"
    /\ afterFlush' = "exit"
    /\ UNCHANGED <<flushFrame, spanPartials, linesBuf, buffer, uploads, uploadFailed, decoded>>

\* flushAndUpload, lines 403-404: the ticker fires and flush() is called
FlushTick ==
    /\ pcFlush = "select" /\ ~processGone
    /\ pcFlush' = "flush"
    /\ afterFlush' = "loop"
    /\ UNCHANGED <<flushFrame, spanPartials, linesBuf, buffer, uploads, uploadFailed, decoded>>

\* flushAndUpload, lines 405-409: the caller's context is cancelled; the final
\* flush() is called, and the loop returns after it
FlushCtxDone ==
    /\ pcFlush = "select" /\ ~processGone
    /\ ctxDone
    /\ pcFlush' = "flush"
    /\ afterFlush' = "exit"
    /\ UNCHANGED <<flushFrame, spanPartials, linesBuf, buffer, uploads, uploadFailed, decoded>>

\* an upload worker at its start: the goroutine holds the records it uploads,
\* of which the model keeps the count
Worker(signal, count) ==
    [signal |-> signal, count |-> count, i |-> 0, attempts |-> <<>>, done |-> FALSE]

\* faulty variant of hasRecords: a worker is started for an empty batch too
hasRecords_Always(n) == TRUE

\* flushAndUpload, lines 344 and 365: len(logs) > 0, len(spans) > 0
hasRecords(n) == n > 0

\* faulty variant of emptied: the flush leaves the buffer as it found it
emptied_Kept(buf) == buf

\* flushAndUpload, lines 330, 338 and 386: buffer = buffer[:0]
emptied(buf) == <<>>

\* flushAndUpload, lines 319-383: flush(), up to the start of the upload
\* workers: nothing on an empty buffer; else the decode of the buffer, and either
\* an emptied buffer when nothing was decoded or one worker per signal decoded
flush ==
    /\ pcFlush = "flush" /\ ~processGone
    /\ IF Len(buffer) = 0
       THEN /\ pcFlush' = afterFlushPc(afterFlush)
            /\ UNCHANGED <<spanPartials, buffer, uploads, decoded>>
       ELSE \E r \in {DecodeLines(spanPartials, cutoffTimeNano, BufferLines(buffer),
                                   Zeros(Len(buffer)))} :
                /\ spanPartials' = r.partials
                /\ decoded' = Append(decoded, buffer)
                /\ IF Len(r.logs) = 0 /\ Len(r.spans) = 0
                   THEN /\ buffer' = emptied(buffer)
                        /\ pcFlush' = afterFlushPc(afterFlush)
                        /\ UNCHANGED uploads
                   ELSE /\ pcFlush' = "upload"
                        /\ uploads' = (IF hasRecords(Len(r.logs))
                                       THEN {Worker("logs", Len(r.logs))} ELSE {})
                                      \cup (IF hasRecords(Len(r.spans))
                                            THEN {Worker("traces", Len(r.spans))} ELSE {})
                        /\ UNCHANGED buffer
    /\ UNCHANGED <<flushFrame, linesBuf, afterFlush, uploadFailed>>

\* faulty variant of uploadParentDone: the upload context derives from the
\* context of the run
uploadParentDone_RunCtx(runCtxDone) == runCtxDone

\* flushAndUpload, line 342: the upload context derives from
\* context.Background(), which is never cancelled
uploadParentDone(runCtxDone) == FALSE

\* what an upload of a forwarder returns: nil, an error of its exporter (the
\* flush timeout among them), or the cancellation of the parent of its context
UploadOutcomes(runCtxDone) ==
    {"ok", "err"} \cup (IF uploadParentDone(runCtxDone) THEN {"canceled"} ELSE {})

\* faulty variant of nextForwarder: the worker returns on the first error
nextForwarder_StopOnError(i, res, n) == IF res = "ok" THEN i + 1 ELSE n

\* flushAndUpload, lines 349 and 369: the loop goes on to the next forwarder,
\* whatever the upload returned
nextForwarder(i, res, n) == i + 1

\* flushAndUpload, lines 349-361 and 369-381: an upload worker calls the
\* upload of its next forwarder, which returns; an error is logged
UploadCall ==
    /\ pcFlush = "upload" /\ ~processGone
    /\ \E w \in uploads : \E res \in UploadOutcomes(ctxDone) :
          /\ ~w.done /\ w.i < nForwarders
          /\ uploads' = (uploads \ {w}) \cup
                {[w EXCEPT !.i = nextForwarder(w.i, res, nForwarders),
                           !.attempts = Append(@, [fw |-> w.i + 1, res |-> res])]}
          /\ uploadFailed' = (uploadFailed \/ res # "ok")
    /\ UNCHANGED <<flushFrame, spanPartials, linesBuf, pcFlush, buffer, afterFlush, decoded>>

\* flushAndUpload, lines 348 and 368: an upload worker is through with the
\* forwarders and its deferred wg.Done() runs
UploadWorkerDone ==
    /\ pcFlush = "upload" /\ ~processGone
    /\ \E w \in uploads :
          /\ ~w.done /\ w.i >= nForwarders
          /\ uploads' = (uploads \ {w}) \cup {[w EXCEPT !.done = TRUE]}
    /\ UNCHANGED <<flushFrame, spanPartials, linesBuf, pcFlush, buffer, afterFlush,
                   uploadFailed, decoded>>

\* an upload of a forwarder never returns: the worker, and wg.Wait() at line
\* 384 with it, is blocked for good
UploadHangs ==
    /\ pcFlush = "upload" /\ ~processGone
    /\ \E w \in uploads : ~w.done /\ w.i < nForwarders
    /\ pcFlush' = "hung"
    /\ UNCHANGED <<flushFrame, spanPartials, linesBuf, buffer, afterFlush, uploads,
                   uploadFailed, decoded>>

\* faulty variant of flushWgWait: the wait ends when one worker is done
flushWgWait_AnyDone(ws) == \E w \in ws : w.done

\* flushAndUpload, line 384: wg.Wait() returns when every worker is done
flushWgWait(ws) == \A w \in ws : w.done

\* flushAndUpload, lines 384-386: wg.Wait() returns and the buffer is emptied;
\* the workers that are done are gone
FlushJoin ==
    /\ pcFlush = "upload" /\ ~processGone
    /\ flushWgWait(uploads)
    /\ uploads' = {w \in uploads : ~w.done}
    /\ buffer' = emptied(buffer)
    /\ pcFlush' = afterFlushPc(afterFlush)
    /\ UNCHANGED <<flushFrame, spanPartials, linesBuf, afterFlush, uploadFailed, decoded>>

\* flushAndUpload, lines 303-311: the deferred Stop of the forwarders
FlushStop ==
    /\ pcFlush = "stop" /\ ~processGone
    /\ pcFlush' = "done"
    /\ UNCHANGED <<flushFrame, spanPartials, linesBuf, buffer, afterFlush, uploads,
                   uploadFailed, decoded>>

NextRun ==
    \/ RunEntry \/ CmdSpawn \/ CmdWriteLine \/ CmdExit
    \/ RunSettle \/ RunCancelTail \/ RunCloseLines \/ RunDrained \/ RunDrainTimeout
    \/ Interrupt
    \/ TailOpened \/ TailOpenFailed \/ TailRead \/ TailEofWait \/ TailSend
    \/ FlushStart \/ FlushReceive \/ FlushLinesClosed \/ FlushTick \/ FlushCtxDone
    \/ flush
    \/ UploadCall \/ UploadWorkerDone \/ UploadHangs \/ FlushJoin \/ FlushStop

Spec == InitRun /\ [][NextRun]_vars

\* the run of a command that ends its lines with "\n" or "\r\n", writes empty
\* lines, and writes a line in two parts
InitTail ==
    /\ pool = "tail"
    /\ cutoffTimeNano = RunCutoff
    /\ spanPartials = EmptyMap
    /\ prevPartials = EmptyMap
    /\ calls = <<>>
    /\ outs = <<>>
    /\ spanPartialsB = EmptyMap
    /\ outsB = <<>>
    /\ targetCmdLen = 1
    /\ nForwarders = 1
    /\ environ = UsualEnviron
    /\ runParams = UsualParams
    /\ cmdWrites = {"lf", "crlf", "blank", "split"}
    /\ RunAtEntry
    /\ SinkIdle

SpecTail == InitTail /\ [][NextRun]_vars

\* the run of a command that writes up to three lines, with two forwarders
InitFlush ==
    /\ pool = "flush"
    /\ cutoffTimeNano = RunCutoff
    /\ spanPartials = EmptyMap
    /\ prevPartials = EmptyMap
    /\ calls = <<>>
    /\ outs = <<>>
    /\ spanPartialsB = EmptyMap
    /\ outsB = <<>>
    /\ targetCmdLen = 1
    /\ nForwarders = 2
    /\ RunIdle
    /\ SinkIdle

SpecFlush == InitFlush /\ [][NextRun]_vars

\* App.Run called by any caller, up to the environment it gives the command
InitEnv ==
    /\ pool = "run"
    /\ cutoffTimeNano = RunCutoff
    /\ spanPartials = EmptyMap
    /\ prevPartials = EmptyMap
    /\ calls = <<>>
    /\ outs = <<>>
    /\ spanPartialsB = EmptyMap
    /\ outsB = <<>>
    /\ targetCmdLen \in {0, 1}
    /\ nForwarders = 0
    /\ environ \in Environs
    /\ cmdWrites = {"lf"}
    /\ runParams \in ParamsSet
    /\ RunAtEntry
    /\ SinkIdle

NextEnv == RunEntry

SpecEnv == InitEnv /\ [][NextEnv]_vars

\* the steps of the goroutine of Run, timers included
RunSteps ==
    \/ RunEntry \/ CmdSpawn \/ RunSettle \/ RunCancelTail \/ RunCloseLines
    \/ RunDrained \/ RunDrainTimeout

\* the steps of the goroutine of tailOTELFile, timers included
TailSteps == TailOpened \/ TailOpenFailed \/ TailRead \/ TailEofWait \/ TailSend

\* the steps of the goroutine of flushAndUpload that depend on no one else
FlushSteps ==
    \/ FlushStart \/ FlushReceive \/ FlushLinesClosed \/ FlushCtxDone \/ flush
    \/ FlushJoin \/ FlushStop

\* some step of FlushSteps can be taken: ENABLED <<FlushSteps>>_vars, spelled
\* out on the position of the goroutine
FlushCanStep ==
    /\ ~processGone
    /\ \/ pcFlush \in {"start", "flush", "stop"}
       \/ pcFlush = "select" /\ (Len(linesBuf) > 0 \/ linesClosed \/ ctxDone)
       \/ pcFlush = "upload" /\ flushWgWait(uploads)

\* the scheduler runs every goroutine that can take a step, and the timers
\* fire; what the command, the caller and a blocked upload do is not assumed.
\* The last conjunct is WF_vars(FlushSteps) with its ENABLED spelled out.
SpecFair ==
    /\ Spec
    /\ WF_vars(RunSteps)
    /\ WF_vars(TailSteps)
    /\ ([]<>(~FlushCanStep) \/ []<><<FlushSteps>>_vars)

(***************************************************************************)
(* Claims on the run.                                                      *)
(***************************************************************************)
\* C1: in every run in which the wrapped command was started and exited, the
\* value Run returns is exactly the exit code of the command, whatever the
\* Tailer and the consumption loop did or are still doing (no file, lines that
\* do not decode, upload errors, an upload that hangs, no forwarder, the drain
\* timeout).
C1_ReturnsCommandExitCode ==
    (pcRun = "returned" /\ cmdState = "exited") =>
        (ret.returned /\ ret.code = cmdExitCode)

\* Run has returned the nonzero exit code of the command on the drain timeout,
\* the consumption loop being blocked in an upload that never finishes
C1_Witness ==
    /\ pcRun = "returned" /\ cmdState = "exited"
    /\ cmdExitCode = 2 /\ ret.code = 2
    /\ pcFlush = "hung"

\* C2: once the wrapped command has completed (cmd.Run() has returned), Run
\* eventually returns.
C2_RunEventuallyReturns == (pcRun = "sleep") ~> (pcRun = "returned")

\* C3: Run returns 1 when no target command is given, and then neither the
\* Tailer, the consumption loop nor a command was started, and when the command
\* cannot be spawned; in every other run the value returned is the outcome of the
\* command, whatever else failed.
C3_LocalFailureCode ==
    /\ targetCmdLen = 0 =>
          /\ pcTail = "none" /\ pcFlush = "none" /\ cmdState = "none"
          /\ pcRun = "returned" => ret.code = 1
    /\ (pcRun = "returned" /\ cmdState = "failed") => ret.code = 1
    /\ (pcRun = "returned" /\ ret.code = 1) =>
          \/ targetCmdLen = 0
          \/ cmdState = "failed"
          \/ (cmdState = "exited" /\ cmdExitCode = 1)

\* Run has returned 1 for a command that could not be spawned, after the Tailer
\* gave up on a file that never appeared
C3_Witness ==
    /\ pcRun = "returned"
    /\ cmdState = "failed" /\ ret.code = 1
    /\ pcTail = "done" /\ ~fileExists

\* the position of the first "=" of an entry, 0 when it has none
FirstEq(e) ==
    IF \E i \in 1..Len(e) : e[i] = "="
    THEN CHOOSE i \in 1..Len(e) : e[i] = "=" /\ \A j \in 1..(i - 1) : e[j] # "="
    ELSE 0

\* the entries of env that set the variable name
SettingsOf(env, name) ==
    {i \in 1..Len(env) : FirstEq(env[i]) > 0 /\ SubSeq(env[i], 1, FirstEq(env[i]) - 1) = name}

\* the value the command finds in the variable name, set in env: that of
\* the last entry that sets it
ValueIn(env, name) ==
    LET i == CHOOSE k \in SettingsOf(env, name) : \A j \in SettingsOf(env, name) : j <= k
    IN  SubSeq(env[i], FirstEq(env[i]) + 1, Len(env[i]))

\* the names of the variables env sets
NamesIn(env) ==
    {SubSeq(env[i], 1, FirstEq(env[i]) - 1) : i \in {k \in 1..Len(env) : FirstEq(env[k]) > 0}}

\* C27: the environment handed to the wrapped command is the environment of
\* the caller, every entry as it was, followed by at most an entry for
\* DBT_OTEL_FILE_NAME and an entry for DBT_LOG_PATH: each is added only when
\* the caller has not set the variable, names the log file resp. the log
\* directory of the run, and is added whenever the variable is not set and the
\* run has a log file resp. a log directory; so every variable the caller set
\* keeps its value.
C27_CommandEnvironment ==
    (pcRun # "entry" /\ targetCmdLen > 0) =>
        LET added == SubSeq(cmdEnv, Len(environ) + 1, Len(cmdEnv)) IN
        /\ Len(cmdEnv) >= Len(environ)
        /\ SubSeq(cmdEnv, 1, Len(environ)) = environ
        /\ \A i \in 1..Len(added) :
              /\ SettingsOf(environ, SubSeq(added[i], 1, FirstEq(added[i]) - 1)) = {}
              /\ \/ added[i] = OtelFileKey \o <<"=">> \o runParams.OtelFile
                 \/ added[i] = LogPathKey \o <<"=">> \o logDirOf(runParams)
              /\ \A j \in 1..Len(added) : added[j] = added[i] => j = i
        /\ SettingsOf(environ, OtelFileKey) = {} => SettingsOf(cmdEnv, OtelFileKey) # {}
        /\ (SettingsOf(environ, LogPathKey) = {} /\ logDirOf(runParams) # EmptyStr)
              => SettingsOf(cmdEnv, LogPathKey) # {}
        /\ \A name \in NamesIn(environ) : ValueIn(cmdEnv, name) = ValueIn(environ, name)
        /\ NamesIn(cmdEnv) \subseteq NamesIn(environ) \cup {OtelFileKey, LogPathKey}

\* the caller had set the log file variable and another variable, not the log
\* directory variable: the command was given both entries and DBT_LOG_PATH
C27_Witness ==
    /\ pcRun = "exec"
    /\ environ = <<<<"DBT_OTEL_FILE_NAME", "=", "mine">>, <<"PATH", "=", "/", "bin">>>>
    /\ runParams = [LogPath |-> <<"logs">>, OtelFile |-> <<"otel.jsonl">>]
    /\ cmdEnv = Append(environ, <<"DBT_LOG_PATH", "=", "logs">>)

\* C24: the Tailer fails to open the log file at most OpenAttempts times (30
\* in the program); after the last failure it has returned, it has pushed no
\* line and never does, nothing is decoded or uploaded, no goroutine panics,
\* and a run whose command exited returns the exit code of the command.
C24_BoundedOpen ==
    /\ openTries <= OpenAttempts
    /\ openTries = OpenAttempts =>
          /\ pcTail = "done"
          /\ pushed = <<>> /\ linesBuf = <<>> /\ buffer = <<>>
          /\ spanPartials = EmptyMap /\ uploads = {}
          /\ ~panicked
          /\ (pcRun = "returned" /\ cmdState = "exited") => ret.code = cmdExitCode

\* the Tailer gave up, the command created the file only then and exited with
\* 2, and Run returned 2 after the consumption loop had finished
C24_Witness ==
    /\ openTries = OpenAttempts
    /\ fileExists /\ pushed = <<>>
    /\ pcFlush = "done"
    /\ pcRun = "returned" /\ cmdState = "exited"
    /\ cmdExitCode = 2 /\ ret.code = 2

\* C26: once its context is cancelled the Tailer pushes no further line, and
\* it terminates by returning: no step of it ends the process instead.
C26_CancelStopsTailer ==
    [][tailCtxDone => (pushed' = pushed /\ panicked' = panicked)]_vars

\* the lines of data that are ended by "\n", each without its "\n"
RECURSIVE TerminatedLines(_)
TerminatedLines(data) ==
    IF Newlines(data) = {} THEN <<>>
    ELSE LET n == CHOOSE i \in Newlines(data) : \A j \in Newlines(data) : i <= j
         IN  <<SubSeq(data, 1, n - 1)>> \o TerminatedLines(SubSeq(data, n + 1, Len(data)))

\* a line without the "\r" that ends it
Stripped(line) ==
    IF line # <<>> /\ line[Len(line)] = "\r" THEN SubSeq(line, 1, Len(line) - 1) ELSE line

\* the complete lines of the file that are not blank, terminators stripped
CompleteLines(data) ==
    LET all == TerminatedLines(data)
        NotBlank(l) == l # <<>>
    IN  SelectSeq([i \in 1..Len(all) |-> Stripped(all[i])], NotBlank)

\* C25: the lines the Tailer has pushed are the first complete, non-blank,
\* terminator-stripped lines of the file, in file order: no part of a line is
\* pushed, and a line written in several appends is pushed once and whole.
C25_PushedAreFileLines ==
    /\ Len(pushed) <= Len(CompleteLines(fileData))
    /\ pushed = SubSeq(CompleteLines(fileData), 1, Len(pushed))

\* the concatenation of the buffers of a sequence of flushes
RECURSIVE Flatten(_)
Flatten(bufs) == IF bufs = <<>> THEN <<>> ELSE Head(bufs) \o Flatten(Tail(bufs))

\* the results of the uploads a worker has called, in order
Results(w) == [k \in 1..Len(w.attempts) |-> w.attempts[k].res]

\* the worker has called the upload of each forwarder once, in order
CalledEachOnce(w) ==
    /\ Len(w.attempts) = nForwarders
    /\ \A k \in 1..Len(w.attempts) : w.attempts[k].fw = k

\* the step is the return of wg.Wait() in flush()
JoinStep == pcFlush = "upload" /\ pcFlush' \notin {"upload", "hung"}

\* the step is the call of flush() on the buffer, empty or not
FlushCallStep == pcFlush = "flush" /\ pcFlush' # "flush"

\* C22: the loop is never in its select with a buffer at the threshold; it
\* leaves its select only for a flush, which the tick calls whatever the buffer
\* holds and after which the loop goes on, and which the closed queue calls
\* once the queue is drained; a flush of an empty buffer leaves the Decoder and
\* the upload workers alone, one of a non-empty buffer decodes it; when the
\* loop exits its buffer is empty.
C22_FlushTriggers ==
    [][/\ pcFlush' = "select" => Len(buffer') < FlushThreshold
       /\ (pcFlush = "select" /\ pcFlush' # "select") =>
             /\ pcFlush' = "flush"
             /\ Len(buffer') = FlushThreshold => afterFlush' = "loop"
             /\ afterFlush' = "exit" => (ctxDone \/ (linesClosed /\ linesBuf = <<>>))
       /\ FlushCallStep =>
             IF buffer = <<>>
             THEN /\ decoded' = decoded /\ spanPartials' = spanPartials
                  /\ uploads' = uploads /\ uploads = {}
                  /\ pcFlush' = afterFlushPc(afterFlush)
             ELSE decoded' = Append(decoded, buffer)
       /\ pcFlush' \in {"stop", "done"} => buffer' = <<>>]_vars

\* the buffer reached the threshold before the queue was closed and its flush
\* has decoded it
C22_Witness ==
    /\ pcFlush = "upload" /\ afterFlush = "loop" /\ ~linesClosed /\ ~ctxDone
    /\ Len(buffer) = FlushThreshold
    /\ decoded = <<buffer>>

C21_UploadFailureGoesOn ==
    [][/\ (pcFlush = "upload" /\ uploads' # uploads /\ ~JoinStep) =>
             (panicked' = panicked /\ ret' = ret /\ pcRun' = pcRun /\ pcFlush' = "upload")
       /\ JoinStep =>
             /\ \A w \in uploads : CalledEachOnce(w)
             /\ buffer' = <<>>
             /\ pcFlush' = afterFlushPc(afterFlush)
       /\ \A w \in uploads' : \A k \in 1..Len(w.attempts) : w.attempts[k].fw = k
       /\ (uploadFailed /\ FlushCallStep /\ buffer # <<>>) =>
             /\ decoded' = Append(decoded, buffer)
             /\ pcFlush' = "upload" =>
                   (uploads' # {} /\ \A w \in uploads' : w = Worker(w.signal, w.count))]_vars

\* in the second flush of the run a worker is done: the upload of its first
\* forwarder failed and it went on to call the second, which succeeded
C21_Witness ==
    /\ nForwarders = 2 /\ Len(decoded) = 2 /\ pcFlush = "upload" /\ uploadFailed
    /\ \E w \in uploads : w.done /\ Results(w) = <<"err", "ok">>

\* C28: no upload returns the cancellation of the context of the run; the
\* loop leaves its select for a flush even when the context is cancelled, and
\* when it has exited its buffer is empty and every line it received has been
\* decoded.
C28_UploadsOutliveCancel ==
    /\ \A w \in uploads : \A k \in 1..Len(w.attempts) : w.attempts[k].res # "canceled"
    /\ pcFlush \in {"stop", "done"} =>
          /\ buffer = <<>>
          /\ uploads = {}
          /\ Flatten(decoded) \o linesBuf = pushed

\* the context was cancelled before the queue was closed; in the final flush
\* every worker has called both forwarders and every upload succeeded
C28_Witness ==
    /\ ctxDone /\ ~linesClosed /\ afterFlush = "exit" /\ pcFlush = "upload"
    /\ nForwarders = 2 /\ uploads # {}
    /\ \A w \in uploads : w.done /\ Results(w) = <<"ok", "ok">>

\* the upload workers that are running
Running(ws) == {w \in ws : ~w.done}

\* C29: the upload workers are at most one for logs and one for traces; a
\* worker runs only while the flush that started it waits for it; the Decoder
\* is called, and its span-partial map changed, only by a flush and only when
\* no upload worker exists.
C29_WorkersJoined ==
    [][/\ \A w \in uploads' : w.signal \in {"logs", "traces"}
       /\ \A v, w \in uploads' : v.signal = w.signal => v = w
       /\ Running(uploads') # {} => pcFlush' \in {"upload", "hung"}
       /\ (decoded' # decoded \/ spanPartials' # spanPartials) =>
             /\ pcFlush \in {"start", "flush"}
             /\ uploads = {}
       /\ JoinStep => uploads' = {}]_vars

\* the second flush of the run decoded a log and a span: its two workers
\* exist, the one for logs is done and the one for traces is still running
C29_Witness ==
    /\ pcFlush = "upload" /\ Len(decoded) = 2
    /\ Cardinality(uploads) = 2
    /\ \E w \in uploads : w.signal = "logs" /\ w.done
    /\ \E w \in uploads : w.signal = "traces" /\ ~w.done

\* C37: once Run has closed the line queue the Tailer pushes nothing onto
\* it: no line is added to the queue and no send on the closed queue is made.
C37_NoPushAfterClose ==
    [][linesClosed => (pushed' = pushed /\ Len(linesBuf') <= Len(linesBuf)
                       /\ panicked' = panicked)]_vars

\* C40: the loop is in its select only with a buffer below the threshold; a
\* flush that found the buffer non-empty returns with an empty buffer: when
\* nothing was decoded, and when the workers are joined, whatever their
\* uploads returned.
C40_BufferBounded ==
    [][/\ pcFlush' = "select" => Len(buffer') < FlushThreshold
       /\ (pcFlush \in {"flush", "upload"} /\ pcFlush' \in {"select", "stop"}) =>
             buffer' = <<>>]_vars

\* a flush whose uploads failed has returned: the loop waits with an empty
\* buffer, the line it flushed decoded
C40_Witness ==
    /\ pcFlush = "select" /\ buffer = <<>> /\ uploadFailed
    /\ Len(decoded) = 1 /\ decoded[1] # <<>>
    /\ uploads = {}

\* C31: every upload worker holds at least one record, and only a worker calls
\* the upload of a forwarder; a flush that starts no worker leaves no worker
\* behind and goes back to the loop, and a flush that waits for workers has
\* started one.
C31_NoEmptyUpload ==
    [][/\ \A w \in uploads' : w.count > 0
       /\ (uploadFailed' # uploadFailed \/ (pcFlush = "upload" /\ uploads' # uploads /\ ~JoinStep))
             => \E w \in uploads : ~w.done /\ w.count > 0
       /\ FlushCallStep =>
             IF pcFlush' = "upload"
             THEN uploads' # {} /\ \A w \in uploads' : Len(w.attempts) = 0
             ELSE uploads' = {} /\ pcFlush' = afterFlushPc(afterFlush)]_vars

\* a flush decoded one span and no log: the only worker is the one for
\* traces, which has called both forwarders with its one span
C31_Witness ==
    /\ pcFlush = "upload" /\ nForwarders = 2
    /\ \E w \in uploads :
          /\ uploads = {w}
          /\ w.signal = "traces" /\ w.count = 1 /\ Len(w.attempts) = 2

(***************************************************************************)
(* The Forwarder: attribute modifiers and the hand-over to the exporters.  *)
(* A Go value is [t, v] as above; a CEL program is its syntax tree:        *)
(*   [op |-> "lit", v]          a literal                                  *)
(*   [op |-> "attr", key]       attributes["key"]                          *)
(*   [op |-> "attrEq", key, v]  attributes["key"] == v                     *)
(*   [op |-> "in", key]         "key" in attributes                        *)
(* A nil program is the empty sequence, a set one a singleton.             *)
(***************************************************************************)
\* records in one batch handed to an Upload
MaxRecords == 2
\* modifiers of the traces side of a Forwarder
MaxSpanRules == 2
\* modifiers of the logs side of a Forwarder
MaxLogRules == 1
\* calls made on one Forwarder
MaxForwarderCalls == 1

GoBool(b) == [t |-> "bool", v |-> b]

GoNil == [t |-> "nil", v |-> <<>>]

\* the last entry of an attribute list with the given key
LastIndex(attrs, k) ==
    CHOOSE i \in 1..Len(attrs) :
        attrs[i].Key = k /\ \A j \in 1..Len(attrs) : attrs[j].Key = k => j <= i

RECURSIVE getAttributeValue(_)
\* func getAttributeValue(val): the Go value of an OTLP AnyValue
getAttributeValue(val) ==
    CASE val.kind = "StringValue" -> JStr(val.val)
      [] val.kind = "BoolValue" -> GoBool(val.val)
      [] val.kind = "IntValue" -> [t |-> "int64", v |-> val.val]
      [] val.kind = "DoubleValue" -> JNum(val.val)
      [] val.kind = "ArrayValue" ->
           JArr([i \in 1..Len(val.val) |-> getAttributeValue(val.val[i])])
      [] val.kind = "KvlistValue" ->
           JObj([k \in {val.val[i].Key : i \in 1..Len(val.val)} |->
                    getAttributeValue(val.val[LastIndex(val.val, k)].Value)])
      [] OTHER -> GoNil

\* func convertAttributesToMap(attrs): a later entry overwrites an earlier one
\* of the same key
convertAttributesToMap(attrs) ==
    [k \in {attrs[i].Key : i \in 1..Len(attrs)} |->
        getAttributeValue(attrs[LastIndex(attrs, k)].Value)]

\* func SpanForEval(span): the object the programs of a span modifier read
SpanForEval(span) ==
    [name |-> span.Name, attributes |-> convertAttributesToMap(span.Attributes)]

\* func LogForEval(log): the object the programs of a log modifier read
LogForEval(log) ==
    [severityText |-> log.SeverityText,
     attributes |-> convertAttributesToMap(log.Attributes)]

\* cel.Program.Eval(obj): the value, or an error (indexing a map with a key it
\* does not hold)
Eval(prog, obj) ==
    CASE prog.op = "lit" -> [err |-> FALSE, val |-> prog.v]
      [] prog.op = "attr" ->
           IF prog.key \in DOMAIN obj.attributes
           THEN [err |-> FALSE, val |-> obj.attributes[prog.key]]
           ELSE [err |-> TRUE, val |-> GoNil]
      [] prog.op = "attrEq" ->
           IF prog.key \in DOMAIN obj.attributes
           THEN [err |-> FALSE,
                 val |-> GoBool(/\ obj.attributes[prog.key].t = prog.v.t
                                /\ obj.attributes[prog.key].v = prog.v.v)]
           ELSE [err |-> TRUE, val |-> GoNil]
      [] prog.op = "in" ->
           [err |-> FALSE, val |-> GoBool(prog.key \in DOMAIN obj.attributes)]

\* out.Value().(bool) is true
IsTrue(val) == val.t = "bool" /\ val.v

\* faulty variant of Apply: a remove rule empties the map
Apply_RemoveAll(m, obj, attrs) ==
    LET cond == IF m.when # <<>> THEN Eval(m.when[1], obj)
                ELSE [err |-> FALSE, val |-> GoBool(TRUE)]
    IN  IF cond.err \/ ~IsTrue(cond.val) THEN [attrs |-> attrs, err |-> cond.err]
        ELSE IF m.action = "remove" THEN [attrs |-> EmptyMap, err |-> FALSE]
        ELSE [attrs |-> MapPut(attrs, m.key, m.value), err |-> FALSE]

\* func (m *attributeModifier) Apply(obj, attrs): the map returned and whether
\* an error is returned with it
Apply(m, obj, attrs) ==
    LET cond == IF m.when # <<>> THEN Eval(m.when[1], obj)
                ELSE [err |-> FALSE, val |-> GoBool(TRUE)]
        out == IF m.valueProg # <<>> THEN Eval(m.valueProg[1], obj)
               ELSE [err |-> FALSE, val |-> m.value]
    IN  IF cond.err THEN [attrs |-> attrs, err |-> TRUE]
        ELSE IF ~IsTrue(cond.val) THEN [attrs |-> attrs, err |-> FALSE]
        ELSE IF m.action = "remove" THEN [attrs |-> MapDelete(attrs, m.key), err |-> FALSE]
        ELSE IF out.err THEN [attrs |-> attrs, err |-> TRUE]
        ELSE [attrs |-> MapPut(attrs, m.key, out.val), err |-> FALSE]

RECURSIVE applyModifiers_StopsOnError(_, _, _, _, _)
\* faulty variant of applyModifiers: the first error ends the loop
applyModifiers_StopsOnError(mods, obj, attrsMap, i, trace) ==
    IF i > Len(mods) THEN [attrs |-> attrsMap, trace |-> trace]
    ELSE LET r == Apply(mods[i], obj, attrsMap)
             t == Append(trace, [modifier |-> mods[i], obj |-> obj, before |-> attrsMap,
                                 after |-> r.attrs, err |-> r.err])
         IN  IF r.err THEN [attrs |-> r.attrs, trace |-> t]
             ELSE applyModifiers_StopsOnError(mods, obj, r.attrs, i + 1, t)

RECURSIVE applyModifiers(_, _, _, _, _)
\* UploadLogs, lines 142-149, and UploadTraces, lines 173-180: the loop over
\* the modifiers for one record, with the Apply calls it makes; obj is built
\* once, before the loop
applyModifiers(mods, obj, attrsMap, i, trace) ==
    IF i > Len(mods) THEN [attrs |-> attrsMap, trace |-> trace]
    ELSE LET r == Apply(mods[i], obj, attrsMap)
         IN  applyModifiers(mods, obj, r.attrs, i + 1,
                 Append(trace, [modifier |-> mods[i], obj |-> obj, before |-> attrsMap,
                                after |-> r.attrs, err |-> r.err]))

\* UploadLogs, lines 138-151, and UploadTraces, lines 169-182: the records as
\* handed on, and the Apply calls made per record; objs[i] is the object built
\* for record i by SpanForEval or LogForEval
modifyRecords(mods, batch, objs) ==
    LET runs == [i \in 1..Len(batch) |->
                    applyModifiers(mods, objs[i],
                                   convertAttributesToMap(batch[i].Attributes), 1, <<>>)]
    IN  IF Len(mods) > 0
        THEN [records |-> [i \in 1..Len(batch) |->
                             [batch[i] EXCEPT
                                 !.Attributes = convertAttributesFromMap(runs[i].attrs)]],
              applied |-> [i \in 1..Len(batch) |-> runs[i].trace]]
        ELSE [records |-> batch, applied |-> [i \in 1..Len(batch) |-> <<>>]]

KeyK == <<"dbt", "k">>

KeyM == <<"dbt", "m">>

KeyName == <<"dbt", "name">>

\* set dbt.m to "y"
SetM ==
    [action |-> "set", when |-> <<>>, key |-> KeyM, value |-> JStr(<<"y">>),
     valueProg |-> <<>>]

\* set dbt.k to "z" when attributes["dbt.m"] == "y"
SetKWhenM ==
    [action |-> "set", when |-> <<[op |-> "attrEq", key |-> KeyM, v |-> JStr(<<"y">>)]>>,
     key |-> KeyK, value |-> JStr(<<"z">>), valueProg |-> <<>>]

\* remove dbt.k
RemoveK ==
    [action |-> "remove", when |-> <<>>, key |-> KeyK, value |-> GoNil, valueProg |-> <<>>]

\* remove dbt.m when "dbt.k" in attributes
RemoveMWhenK ==
    [action |-> "remove", when |-> <<[op |-> "in", key |-> KeyK]>>,
     key |-> KeyM, value |-> GoNil, valueProg |-> <<>>]

\* set dbt.m to the value of attributes["dbt.k"]
SetMFromK ==
    [action |-> "set", when |-> <<>>, key |-> KeyM, value |-> GoNil,
     valueProg |-> <<[op |-> "attr", key |-> KeyK]>>]

\* set dbt.name to true when "dbt.m" in attributes
FlagWhenM ==
    [action |-> "set", when |-> <<[op |-> "in", key |-> KeyM]>>,
     key |-> KeyName, value |-> GoBool(TRUE), valueProg |-> <<>>]

Modifiers == {SetM, SetKWhenM, RemoveK, RemoveMWhenK, SetMFromK, FlagWhenM}

\* the lists of at most n modifiers
ModifierLists(n) == UNION {[1..k -> Modifiers] : k \in 0..n}

SpanRun ==
    [Name |-> <<"run">>,
     Attributes |-> <<StringKeyValue(KeyK, <<"s1">>), StringKeyValue(KeyM, <<"x">>)>>]

SpanBare == [Name |-> <<"model">>, Attributes |-> <<>>]

\* a span with a key twice, as the Decoder emits for attributes k and dbt.k
SpanTwice ==
    [Name |-> <<"test">>,
     Attributes |-> <<StringKeyValue(KeyK, <<"b">>), StringKeyValue(KeyK, <<"a">>)>>]

SpanRecords == {SpanRun, SpanBare, SpanTwice}

LogHello ==
    [SeverityText |-> <<"INFO">>, Attributes |-> <<StringKeyValue(KeyK, <<"l1">>)>>]

LogBare == [SeverityText |-> <<>>, Attributes |-> <<>>]

LogRecords == {LogHello, LogBare}

\* the batches of at most MaxRecords records
Batches(records) == UNION {[1..n -> records] : n \in 1..MaxRecords}

\* what a call on an exporter returns
ExporterResults == {"nil", "err"}

\* faulty variant of callExporter: the exporter is called though it is nil
callExporter_NilCalled(has, name, op, records, res) ==
    [invoked |-> <<[exporter |-> name, op |-> op, records |-> records]>>, ret |-> res]

\* UploadLogs, lines 160-164, UploadTraces, lines 191-195, Start and Stop: the
\* call on the exporter of a signal when the Forwarder has one, returning res
callExporter(has, name, op, records, res) ==
    IF has
    THEN [invoked |-> <<[exporter |-> name, op |-> op, records |-> records]>>, ret |-> res]
    ELSE [invoked |-> <<>>, ret |-> "nil"]

InitForward ==
    /\ pool = "run"
    /\ cutoffTimeNano = 0
    /\ spanPartials = EmptyMap
    /\ prevPartials = EmptyMap
    /\ calls = <<>>
    /\ outs = <<>>
    /\ spanPartialsB = EmptyMap
    /\ outsB = <<>>
    /\ targetCmdLen = 1
    /\ nForwarders = 1
    /\ RunIdle
    /\ forwarder \in [spanAttributeModifiers : ModifierLists(MaxSpanRules),
                      logAttributeModifiers : ModifierLists(MaxLogRules),
                      tracesExporter : BOOLEAN, logsExporter : BOOLEAN]
    /\ fwCall = NoCall
    /\ FleetIdle
    /\ MuxIdle

\* func (f *Forwarder) UploadTraces(ctx, scopeSpans)
ForwarderUploadTraces ==
    /\ fwCall.n < MaxForwarderCalls
    /\ \E batch \in Batches(SpanRecords), res \in ExporterResults :
         LET m == modifyRecords(forwarder.spanAttributeModifiers, batch,
                                [i \in 1..Len(batch) |-> SpanForEval(batch[i])])
             c == callExporter(forwarder.tracesExporter, "traces", "UploadTraces",
                               m.records, res)
         IN  /\ ~forwarder.tracesExporter => res = "nil"
             /\ fwCall' = [op |-> "UploadTraces", n |-> fwCall.n + 1, batch |-> batch,
                           applied |-> m.applied, invoked |-> c.invoked, ret |-> c.ret]
    /\ UNCHANGED <<decVars, runVars, forwarder, fleetVars, muxVars>>

\* func (f *Forwarder) UploadLogs(ctx, scopeLogs)
ForwarderUploadLogs ==
    /\ fwCall.n < MaxForwarderCalls
    /\ \E batch \in Batches(LogRecords), res \in ExporterResults :
         LET m == modifyRecords(forwarder.logAttributeModifiers, batch,
                                [i \in 1..Len(batch) |-> LogForEval(batch[i])])
             c == callExporter(forwarder.logsExporter, "logs", "UploadLogs",
                               m.records, res)
         IN  /\ ~forwarder.logsExporter => res = "nil"
             /\ fwCall' = [op |-> "UploadLogs", n |-> fwCall.n + 1, batch |-> batch,
                           applied |-> m.applied, invoked |-> c.invoked, ret |-> c.ret]
    /\ UNCHANGED <<decVars, runVars, forwarder, fleetVars, muxVars>>

\* Forwarder.Start, lines 108-120, and Forwarder.Stop, lines 122-134, of the
\* Forwarder f: the logs exporter, then the traces exporter unless the logs
\* exporter returned an error; resLogs and resTraces are what they return,
\* rets what each call that was made returned
startStopOf(f, op, resLogs, resTraces) ==
    LET l == callExporter(f.logsExporter, "logs", op, <<>>, resLogs)
        t == callExporter(f.tracesExporter, "traces", op, <<>>, resTraces)
    IN  [invoked |-> IF l.ret = "err" THEN l.invoked ELSE l.invoked \o t.invoked,
         rets |-> IF l.ret = "err" THEN <<"err">>
                  ELSE [k \in 1..Len(l.invoked) |-> l.ret]
                       \o [k \in 1..Len(t.invoked) |-> t.ret],
         ret |-> IF l.ret = "err" THEN "err" ELSE t.ret]

\* Start and Stop of the Forwarder under test
startStop(op, resLogs, resTraces) ==
    LET r == startStopOf(forwarder, op, resLogs, resTraces)
    IN  [op |-> op, n |-> fwCall.n + 1, batch |-> <<>>, applied |-> <<>>,
         invoked |-> r.invoked, ret |-> r.ret]

\* func (f *Forwarder) Start(ctx)
ForwarderStart ==
    /\ fwCall.n < MaxForwarderCalls
    /\ \E resLogs, resTraces \in ExporterResults :
         fwCall' = startStop("Start", resLogs, resTraces)
    /\ UNCHANGED <<decVars, runVars, forwarder, fleetVars, muxVars>>

\* func (f *Forwarder) Stop(ctx)
ForwarderStop ==
    /\ fwCall.n < MaxForwarderCalls
    /\ \E resLogs, resTraces \in ExporterResults :
         fwCall' = startStop("Stop", resLogs, resTraces)
    /\ UNCHANGED <<decVars, runVars, forwarder, fleetVars, muxVars>>

NextForward ==
    \/ ForwarderUploadTraces \/ ForwarderUploadLogs \/ ForwarderStart \/ ForwarderStop

SpecForward == InitForward /\ [][NextForward]_vars

(***************************************************************************)
(* Claims on the Forwarder, checked under SpecForward                      *)
(***************************************************************************)
Uploads == {"UploadTraces", "UploadLogs"}

\* the modifiers the last call ran its records through
ModifiersOfCall ==
    IF fwCall.op = "UploadTraces" THEN forwarder.spanAttributeModifiers
    ELSE forwarder.logAttributeModifiers

\* the Apply calls of the last call, as <<record, position in the list>>
Applies ==
    IF fwCall.op \in Uploads
    THEN UNION {{<<i, j>> : j \in 1..Len(fwCall.applied[i])} : i \in 1..Len(fwCall.applied)}
    ELSE {}

ApplyAt(x) == fwCall.applied[x[1]][x[2]]

\* the condition of the rule evaluates, on the object handed to Apply, to
\* something else than true
ConditionFalse(a) ==
    /\ a.modifier.when # <<>>
    /\ ~Eval(a.modifier.when[1], a.obj).err
    /\ ~IsTrue(Eval(a.modifier.when[1], a.obj).val)

\* the rule has no condition, or its condition evaluates to true
ConditionHolds(a) ==
    \/ a.modifier.when = <<>>
    \/ /\ ~Eval(a.modifier.when[1], a.obj).err
       /\ IsTrue(Eval(a.modifier.when[1], a.obj).val)

\* every key of the map but key keeps its value, and no key is added
OthersKept(before, after, key) ==
    /\ DOMAIN after \ {key} = DOMAIN before \ {key}
    /\ \A k \in DOMAIN before \ {key} : after[k] = before[k]

\* C15: an Apply of a set rule whose condition evaluates to false returns the
\* attributes unchanged; an Apply of a remove rule that applies returns them
\* without its key, and unchanged when they did not hold the key; in both
\* cases every other key keeps its value.
C15_RuleFrame ==
    \A x \in Applies :
        LET a == ApplyAt(x) IN
        /\ (a.modifier.action = "set" /\ ConditionFalse(a)) =>
              a.after = a.before /\ ~a.err
        /\ (a.modifier.action = "remove" /\ ConditionHolds(a)) =>
              /\ a.modifier.key \notin DOMAIN a.after
              /\ OthersKept(a.before, a.after, a.modifier.key)
              /\ a.modifier.key \notin DOMAIN a.before => a.after = a.before
              /\ ~a.err

\* a record with dbt.k and dbt.m went through a remove of dbt.k, which left
\* dbt.m alone, and then through a set whose condition was false
C15_Witness ==
    /\ fwCall.op = "UploadTraces"
    /\ \E i \in 1..Len(fwCall.applied) :
          /\ Len(fwCall.applied[i]) = 2
          /\ LET a == fwCall.applied[i][1]
                 b == fwCall.applied[i][2]
             IN  /\ a.modifier.action = "remove" /\ ConditionHolds(a)
                 /\ DOMAIN a.before = {KeyK, KeyM}
                 /\ DOMAIN a.after = {KeyM}
                 /\ b.modifier.action = "set" /\ ConditionFalse(b)
                 /\ b.after = b.before

\* C16: the rules are applied to each record in configured order, each on the
\* map the preceding rule returned, and the effect of each rule is the one it
\* has when its condition and value expression read, as attributes, the map
\* left by the preceding rules.
C16_RulesSeePrecedingOutput ==
    \A x \in Applies :
        LET a == ApplyAt(x)
            mods == ModifiersOfCall
        IN  /\ a.modifier = mods[x[2]]
            /\ x[2] > 1 => a.before = fwCall.applied[x[1]][x[2] - 1].after
            /\ a.after = Apply(a.modifier, [a.obj EXCEPT !.attributes = a.before],
                               a.before).attrs

\* the condition of the rule, or the value expression it goes on to evaluate,
\* fails on the object handed to Apply
EvaluationFails(a) ==
    \/ a.modifier.when # <<>> /\ Eval(a.modifier.when[1], a.obj).err
    \/ /\ ConditionHolds(a)
       /\ a.modifier.action = "set"
       /\ a.modifier.valueProg # <<>>
       /\ Eval(a.modifier.valueProg[1], a.obj).err

\* C17: a rule whose condition or value expression fails to evaluate for a
\* record returns the attributes unchanged, and they reach the next rule as
\* they are; every rule is applied to every record of the batch, and the
\* exporter of the signal, when there is one, is handed all the records.
C17_FailedRuleSkipped ==
    fwCall.op \in Uploads =>
        /\ \A x \in Applies : EvaluationFails(ApplyAt(x)) => ApplyAt(x).after = ApplyAt(x).before
        /\ \A x \in Applies :
              x[2] > 1 => ApplyAt(x).before = fwCall.applied[x[1]][x[2] - 1].after
        /\ Len(fwCall.applied) = Len(fwCall.batch)
        /\ \A i \in 1..Len(fwCall.applied) : Len(fwCall.applied[i]) = Len(ModifiersOfCall)
        /\ \A k \in 1..Len(fwCall.invoked) :
              Len(fwCall.invoked[k].records) = Len(fwCall.batch)
        /\ LET has == IF fwCall.op = "UploadTraces" THEN forwarder.tracesExporter
                      ELSE forwarder.logsExporter
           IN  Len(fwCall.invoked) = IF has THEN 1 ELSE 0

\* for the first of two records the first rule failed and the second rule
\* changed the attributes, and the exporter was handed both records
C17_Witness ==
    /\ fwCall.op = "UploadTraces"
    /\ Len(fwCall.batch) = 2
    /\ Len(fwCall.applied[1]) = 2
    /\ EvaluationFails(fwCall.applied[1][1])
    /\ fwCall.applied[1][2].after # fwCall.applied[1][2].before
    /\ Len(fwCall.applied[2]) = 2
    /\ Len(fwCall.invoked) = 1
    /\ Len(fwCall.invoked[1].records) = 2

\* the Forwarder has an exporter for the signal of the exporter name
HasExporter(name) ==
    IF name = "traces" THEN forwarder.tracesExporter ELSE forwarder.logsExporter

\* C18: an Upload of a signal for which the Forwarder has no exporter returns
\* nil without invoking an exporter; Start and Stop invoke no exporter of a
\* signal that has none, and return nil without invoking any when the
\* Forwarder has no exporter at all.
C18_NoExporterSucceeds ==
    /\ (fwCall.op = "UploadTraces" /\ ~forwarder.tracesExporter) =>
          fwCall.ret = "nil" /\ fwCall.invoked = <<>>
    /\ (fwCall.op = "UploadLogs" /\ ~forwarder.logsExporter) =>
          fwCall.ret = "nil" /\ fwCall.invoked = <<>>
    /\ fwCall.op \in {"Start", "Stop"} =>
          /\ \A k \in 1..Len(fwCall.invoked) : HasExporter(fwCall.invoked[k].exporter)
          /\ (~forwarder.tracesExporter /\ ~forwarder.logsExporter) =>
                fwCall.ret = "nil" /\ fwCall.invoked = <<>>

\* a Forwarder with modifiers and a logs exporter but no traces exporter ran
\* its modifiers over a batch of spans and returned nil
C18_Witness ==
    /\ fwCall.op = "UploadTraces"
    /\ ~forwarder.tracesExporter /\ forwarder.logsExporter
    /\ Applies # {}
    /\ fwCall.ret = "nil"

(***************************************************************************)
(* flushAndUpload and its forwarders: NewForwarders, the uploads of a      *)
(* flush, in which each goroutine hands its slice to every forwarder in    *)
(* turn, and the deferred loop that stops the forwarders.  Every forwarder *)
(* names exporters of its own.                                             *)
(***************************************************************************)
\* entries of cfg.Forward
MaxFleet == 2
\* flushes that decode records before the loop exits
MaxFleetFlushes == 1

\* the Forwarder NewForwarder builds for an entry of cfg.Forward
Fwd(name, spanMods, logMods, logsExp, tracesExp) ==
    [name |-> name, spanAttributeModifiers |-> spanMods,
     logAttributeModifiers |-> logMods,
     logsExporter |-> logsExp, tracesExporter |-> tracesExp]

FwdPlain == Fwd("plain", <<>>, <<>>, TRUE, TRUE)

FwdSet == Fwd("set", <<SetM>>, <<SetM>>, TRUE, TRUE)

FwdRemove == Fwd("remove", <<RemoveK>>, <<>>, TRUE, TRUE)

FwdTraces == Fwd("traces", <<SetKWhenM>>, <<>>, FALSE, TRUE)

FwdLogs == Fwd("logs", <<SetM>>, <<RemoveK>>, TRUE, FALSE)

ForwardConfigs == {FwdPlain, FwdSet, FwdRemove, FwdTraces, FwdLogs}

\* the entries of a cfg.Forward, which have different names, in any order:
\* range visits the entries of a map in an order that is not specified
ForwardMaps ==
    {s \in UNION {[1..n -> ForwardConfigs] : n \in 1..MaxFleet} :
        \A i, j \in 1..Len(s) : i # j => s[i].name # s[j].name}

\* what DecodeLines returns to a flush that goes on to upload
FleetSpans == {<<>>, <<SpanRun>>, <<SpanBare, SpanRun>>}

FleetLogs == {<<>>, <<LogHello>>}

\* the calls Forwarder fw made on its exporters, as exporterCalls keeps them;
\* of is what DecodeLines had returned for the signal of an upload
FleetCalls(fw, invoked, rets, of) ==
    [k \in 1..Len(invoked) |->
        [forwarder |-> fw.name, exporter |-> invoked[k].exporter, op |-> invoked[k].op,
         records |-> invoked[k].records, ret |-> rets[k], of |-> of]]

InitFleet ==
    /\ pool = "run"
    /\ cutoffTimeNano = 0
    /\ spanPartials = EmptyMap
    /\ prevPartials = EmptyMap
    /\ calls = <<>>
    /\ outs = <<>>
    /\ spanPartialsB = EmptyMap
    /\ outsB = <<>>
    /\ targetCmdLen = 1
    /\ nForwarders = 1
    /\ RunIdle
    /\ forwarder = NoForwarder
    /\ fwCall = NoCall
    /\ cfgForward \in ForwardMaps
    /\ forwarders = <<>>
    /\ slices = [decoded |-> NoSlices, held |-> NoSlices]
    /\ exporterCalls = <<>>
    /\ pcFleet = [pc |-> "new", i |-> 1, flushes |-> 0, logs |-> 0, traces |-> 0]
    /\ MuxIdle

\* NewForwarders, lines 209-220: one round of the loop over cfg.Forward;
\* a forwarder whose Start returned an error is not appended
NewForwardersNext ==
    /\ pcFleet.pc = "new"
    /\ pcFleet.i <= Len(cfgForward)
    /\ \E resLogs, resTraces \in ExporterResults :
         LET fw == cfgForward[pcFleet.i]
             r == startStopOf(fw, "Start", resLogs, resTraces)
         IN  /\ exporterCalls' = exporterCalls \o FleetCalls(fw, r.invoked, r.rets, <<>>)
             /\ forwarders' = IF r.ret = "err" THEN forwarders ELSE Append(forwarders, fw)
    /\ pcFleet' = [pcFleet EXCEPT !.i = @ + 1]
    /\ UNCHANGED <<decVars, runVars, forwarder, fwCall, cfgForward, slices, muxVars>>

\* NewForwarders, line 221, and flushAndUpload up to its loop
NewForwardersReturn ==
    /\ pcFleet.pc = "new"
    /\ pcFleet.i > Len(cfgForward)
    /\ pcFleet' = [pcFleet EXCEPT !.pc = "loop"]
    /\ UNCHANGED <<decVars, runVars, forwarder, fwCall, cfgForward, forwarders, slices,
                   exporterCalls, muxVars>>

\* flush, lines 325-383: DecodeLines has returned records, and a goroutine is
\* started for each signal that has some
FleetFlush ==
    /\ pcFleet.pc = "loop"
    /\ pcFleet.flushes < MaxFleetFlushes
    /\ \E spans \in FleetSpans, logs \in FleetLogs :
         /\ ~(Len(logs) = 0 /\ Len(spans) = 0)
         /\ slices' = [decoded |-> [spans |-> spans, logs |-> logs],
                       held |-> [spans |-> spans, logs |-> logs]]
    /\ pcFleet' = [pcFleet EXCEPT !.pc = "upload", !.flushes = @ + 1,
                                  !.logs = 0, !.traces = 0]
    /\ UNCHANGED <<decVars, runVars, forwarder, fwCall, cfgForward, forwarders,
                   exporterCalls, muxVars>>

\* flush, lines 369-381: the goroutine of the spans calls UploadTraces of its
\* next forwarder, which writes the attributes it computed into the spans
FleetUploadTraces ==
    /\ pcFleet.pc = "upload"
    /\ hasRecords(Len(slices.decoded.spans))
    /\ pcFleet.traces < Len(forwarders)
    /\ \E res \in ExporterResults :
         LET fw == forwarders[pcFleet.traces + 1]
             held == slices.held.spans
             m == modifyRecords(fw.spanAttributeModifiers, held,
                                [i \in 1..Len(held) |-> SpanForEval(held[i])])
             c == callExporter(fw.tracesExporter, "traces", "UploadTraces", m.records, res)
         IN  /\ slices' = [slices EXCEPT !.held.spans = m.records]
             /\ exporterCalls' = exporterCalls \o
                   FleetCalls(fw, c.invoked, <<c.ret>>, slices.decoded.spans)
    /\ pcFleet' = [pcFleet EXCEPT !.traces = @ + 1]
    /\ UNCHANGED <<decVars, runVars, forwarder, fwCall, cfgForward, forwarders, muxVars>>

\* flush, lines 349-361: the goroutine of the logs calls UploadLogs of its
\* next forwarder, which writes the attributes it computed into the logs
FleetUploadLogs ==
    /\ pcFleet.pc = "upload"
    /\ hasRecords(Len(slices.decoded.logs))
    /\ pcFleet.logs < Len(forwarders)
    /\ \E res \in ExporterResults :
         LET fw == forwarders[pcFleet.logs + 1]
             held == slices.held.logs
             m == modifyRecords(fw.logAttributeModifiers, held,
                                [i \in 1..Len(held) |-> LogForEval(held[i])])
             c == callExporter(fw.logsExporter, "logs", "UploadLogs", m.records, res)
         IN  /\ slices' = [slices EXCEPT !.held.logs = m.records]
             /\ exporterCalls' = exporterCalls \o
                   FleetCalls(fw, c.invoked, <<c.ret>>, slices.decoded.logs)
    /\ pcFleet' = [pcFleet EXCEPT !.logs = @ + 1]
    /\ UNCHANGED <<decVars, runVars, forwarder, fwCall, cfgForward, forwarders, muxVars>>

\* flush, lines 384-386: wg.Wait() returns when each goroutine that was started
\* is through with the forwarders
FleetJoin ==
    /\ pcFleet.pc = "upload"
    /\ hasRecords(Len(slices.decoded.spans)) => pcFleet.traces = Len(forwarders)
    /\ hasRecords(Len(slices.decoded.logs)) => pcFleet.logs = Len(forwarders)
    /\ pcFleet' = [pcFleet EXCEPT !.pc = "loop"]
    /\ UNCHANGED <<decVars, runVars, forwarder, fwCall, cfgForward, forwarders, slices,
                   exporterCalls, muxVars>>

\* flushAndUpload, lines 397 and 409: the loop returns after its last flush,
\* and the deferred function of lines 303-311 begins
FleetExit ==
    /\ pcFleet.pc = "loop"
    /\ pcFleet' = [pcFleet EXCEPT !.pc = "stop", !.i = 1]
    /\ UNCHANGED <<decVars, runVars, forwarder, fwCall, cfgForward, forwarders, slices,
                   exporterCalls, muxVars>>

\* flushAndUpload, lines 306-310: Stop of the next forwarder of the slice; an
\* error is logged and the loop goes on
FleetStopNext ==
    /\ pcFleet.pc = "stop"
    /\ pcFleet.i <= Len(forwarders)
    /\ \E resLogs, resTraces \in ExporterResults :
         LET fw == forwarders[pcFleet.i]
             r == startStopOf(fw, "Stop", resLogs, resTraces)
         IN  exporterCalls' = exporterCalls \o FleetCalls(fw, r.invoked, r.rets, <<>>)
    /\ pcFleet' = [pcFleet EXCEPT !.i = @ + 1]
    /\ UNCHANGED <<decVars, runVars, forwarder, fwCall, cfgForward, forwarders, slices,
                   muxVars>>

\* flushAndUpload, line 311: the deferred function returns
FleetReturn ==
    /\ pcFleet.pc = "stop"
    /\ pcFleet.i > Len(forwarders)
    /\ pcFleet' = [pcFleet EXCEPT !.pc = "done"]
    /\ UNCHANGED <<decVars, runVars, forwarder, fwCall, cfgForward, forwarders, slices,
                   exporterCalls, muxVars>>

NextFleet ==
    \/ NewForwardersNext \/ NewForwardersReturn \/ FleetFlush
    \/ FleetUploadTraces \/ FleetUploadLogs \/ FleetJoin
    \/ FleetExit \/ FleetStopNext \/ FleetReturn

SpecFleet == InitFleet /\ [][NextFleet]_vars

(***************************************************************************)
(* Claims on the forwarders of a run, checked under SpecFleet              *)
(***************************************************************************)
\* the entry of cfg.Forward of the name
ConfigOf(name) == CHOOSE f \in ForwardConfigs : f.name = name

\* what the forwarder of a call hands on when its own rules are applied to
\* the records DecodeLines returned
OwnRecords(c) ==
    LET f == ConfigOf(c.forwarder)
    IN  IF c.op = "UploadTraces"
        THEN modifyRecords(f.spanAttributeModifiers, c.of,
                           [i \in 1..Len(c.of) |-> SpanForEval(c.of[i])]).records
        ELSE modifyRecords(f.logAttributeModifiers, c.of,
                           [i \in 1..Len(c.of) |-> LogForEval(c.of[i])]).records

\* C38: the records a forwarder hands to its exporter in an upload are the
\* records DecodeLines returned with that forwarder's own rules applied to
\* them, whatever the other forwarders are and wherever the forwarder comes
\* in the slice.
C38_UploadsOwnRulesOnly ==
    \A k \in 1..Len(exporterCalls) :
        exporterCalls[k].op \in Uploads =>
            exporterCalls[k].records = OwnRecords(exporterCalls[k])

\* call k on an exporter was made on the exporter of call j
SameExporter(j, k) ==
    /\ exporterCalls[j].forwarder = exporterCalls[k].forwarder
    /\ exporterCalls[j].exporter = exporterCalls[k].exporter

\* C39: once the deferred function of flushAndUpload has returned, Stop was
\* invoked on every exporter whose Start had returned nil; and no upload is
\* made on an exporter after a Stop of it.
C39_StartedExportersStopped ==
    /\ pcFleet.pc = "done" =>
          \A j \in 1..Len(exporterCalls) :
              (exporterCalls[j].op = "Start" /\ exporterCalls[j].ret = "nil") =>
                  \E k \in (j + 1)..Len(exporterCalls) :
                      exporterCalls[k].op = "Stop" /\ SameExporter(j, k)
    /\ \A j \in 1..Len(exporterCalls) : \A k \in (j + 1)..Len(exporterCalls) :
          ~(/\ exporterCalls[j].op = "Stop"
            /\ exporterCalls[k].op \in Uploads
            /\ SameExporter(j, k))

(***************************************************************************)
(* The exporters: MultiplexExporter over guarded exporters                 *)
(* (OonceStartExporter).  Every call of the MultiplexExporter starts one   *)
(* goroutine per position of its list; two positions may hold the same     *)
(* guarded exporter.  An error is [kind |-> "exporter", code |-> e] for    *)
(* the exporter e that returned it.                                        *)
(***************************************************************************)
\* exporters, and positions in the list of a MultiplexExporter
MaxExporters == 2
\* calls made on one MultiplexExporter, one after the other
MaxMuxCalls == 2

ExporterIds == 1..MaxExporters

ExporterErr(e) == [kind |-> "exporter", code |-> e]

MuxOps == {"Start", "Stop", "UploadLogs", "UploadTraces"}

\* faulty variant of onceFresh: no once, every Start runs the underlying Start
onceFresh_Always(o) == TRUE

\* sync.Once.Do: no call has begun to run the function yet
onceFresh(o) == o.state = "fresh"

\* faulty variant of wgWaitDone: the first goroutine to finish ends the wait
wgWaitDone_AnyDone(ws) == \E i \in 1..Len(ws) : ws[i].pc = "done"

\* wg.Wait(): every goroutine has called wg.Done()
wgWaitDone(ws) == \A i \in 1..Len(ws) : ws[i].pc = "done"

\* a return of OonceStartExporter.Start: the exporter, the result, whether a
\* run of the underlying Start had completed by then, and whether the call had
\* to wait in once.Do for the run of another call
StartReturn(e, res, log, waited) ==
    [exporter |-> e, result |-> res, completed |-> log.ran[e] # <<>>, waited |-> waited]

InitMux ==
    /\ pool = "run"
    /\ cutoffTimeNano = 0
    /\ spanPartials = EmptyMap
    /\ prevPartials = EmptyMap
    /\ calls = <<>>
    /\ outs = <<>>
    /\ spanPartialsB = EmptyMap
    /\ outsB = <<>>
    /\ targetCmdLen = 1
    /\ nForwarders = 1
    /\ RunIdle
    /\ ForwardIdle
    /\ muxExporters \in UNION {[1..n -> ExporterIds] : n \in 1..MaxExporters}
    /\ mux = MuxNoCall
    /\ workers = [i \in 1..Len(muxExporters) |-> [pc |-> "idle", res |-> NoErr, calls |-> 0]]
    /\ errCh = <<>>
    /\ onceStart = [e \in ExporterIds |-> [state |-> "fresh", startErr |-> NoErr]]
    /\ muxRet = [op |-> "none"]
    /\ startLog = [ran |-> [e \in ExporterIds |-> <<>>],
                   begun |-> [e \in ExporterIds |-> 0],
                   returns |-> <<>>]

\* MultiplexExporter.Start, Stop, UploadLogs, UploadTraces, up to wg.Wait():
\* errCh is made and one goroutine is started per position
MuxCall ==
    /\ mux.pc = "idle"
    /\ mux.n < MaxMuxCalls
    /\ \E op \in MuxOps : mux' = [pc |-> "wait", op |-> op, n |-> mux.n + 1]
    /\ workers' = [i \in 1..Len(muxExporters) |->
                     [pc |-> "spawned", res |-> NoErr, calls |-> 0]]
    /\ errCh' = <<>>
    /\ UNCHANGED <<decVars, runVars, fwdVars, muxExporters, onceStart, muxRet, startLog>>

\* the goroutine of position i calls the operation on its exporter.  Start is
\* OonceStartExporter.Start: once.Do runs the underlying Start, waits for the
\* run in progress, or returns at once after a completed run; the other
\* operations are those of the embedded exporter.
WorkerCall(i) ==
    /\ mux.pc = "wait"
    /\ i \in 1..Len(workers)
    /\ workers[i].pc = "spawned"
    /\ LET e == muxExporters[i] IN
       IF mux.op # "Start"
       THEN /\ workers' = [workers EXCEPT ![i].pc = "inCall", ![i].calls = @ + 1]
            /\ UNCHANGED <<onceStart, startLog>>
       ELSE IF onceFresh(onceStart[e])
       THEN /\ workers' = [workers EXCEPT ![i].pc = "inOnce", ![i].calls = @ + 1]
            /\ onceStart' = [onceStart EXCEPT ![e].state = "running"]
            /\ startLog' = [startLog EXCEPT !.begun[e] = @ + 1]
       ELSE IF onceStart[e].state = "running"
       THEN /\ workers' = [workers EXCEPT ![i].pc = "waitOnce", ![i].calls = @ + 1]
            /\ UNCHANGED <<onceStart, startLog>>
       ELSE /\ workers' = [workers EXCEPT ![i].pc = "returned", ![i].calls = @ + 1,
                                          ![i].res = onceStart[e].startErr]
            /\ startLog' = [startLog EXCEPT
                               !.returns = Append(@, StartReturn(e, onceStart[e].startErr,
                                                                 startLog, FALSE))]
            /\ UNCHANGED onceStart
    /\ UNCHANGED <<decVars, runVars, fwdVars, muxExporters, mux, errCh, muxRet>>

\* the underlying exporter returns from the operation, with nil or its error;
\* for a Start this ends the function of once.Do, which has stored the result
\* in startErr, and Start returns startErr
UnderlyingReturns(i) ==
    /\ mux.pc = "wait"
    /\ i \in 1..Len(workers)
    /\ workers[i].pc \in {"inCall", "inOnce"}
    /\ LET e == muxExporters[i] IN
       \E res \in {NoErr, ExporterErr(e)} :
         /\ workers' = [workers EXCEPT ![i].pc = "returned", ![i].res = res]
         /\ IF workers[i].pc = "inOnce"
            THEN /\ onceStart' = [onceStart EXCEPT ![e] = [state |-> "done", startErr |-> res]]
                 /\ startLog' =
                      LET log == [startLog EXCEPT !.ran[e] = Append(@, res)]
                      IN  [log EXCEPT !.returns = Append(@, StartReturn(e, res, log, FALSE))]
            ELSE UNCHANGED <<onceStart, startLog>>
    /\ UNCHANGED <<decVars, runVars, fwdVars, muxExporters, mux, errCh, muxRet>>

\* once.Do returns in a goroutine that waited for the run in progress, and
\* Start returns startErr
OnceUnblock(i) ==
    /\ mux.pc = "wait"
    /\ i \in 1..Len(workers)
    /\ workers[i].pc = "waitOnce"
    /\ LET e == muxExporters[i] IN
         /\ onceStart[e].state = "done"
         /\ workers' = [workers EXCEPT ![i].pc = "returned", ![i].res = onceStart[e].startErr]
         /\ startLog' = [startLog EXCEPT
                            !.returns = Append(@, StartReturn(e, onceStart[e].startErr,
                                                              startLog, TRUE))]
    /\ UNCHANGED <<decVars, runVars, fwdVars, muxExporters, mux, errCh, onceStart, muxRet>>

\* the goroutine sends the error, if any, on errCh and calls wg.Done()
WorkerDone(i) ==
    /\ mux.pc = "wait"
    /\ i \in 1..Len(workers)
    /\ workers[i].pc = "returned"
    /\ errCh' = IF workers[i].res # NoErr THEN Append(errCh, workers[i].res) ELSE errCh
    /\ workers' = [workers EXCEPT ![i].pc = "done"]
    /\ UNCHANGED <<decVars, runVars, fwdVars, muxExporters, mux, onceStart, muxRet, startLog>>

\* wg.Wait() returns; errCh is closed and drained and the errors are joined
MuxReturn ==
    /\ mux.pc = "wait"
    /\ wgWaitDone(workers)
    /\ mux' = [mux EXCEPT !.pc = "idle"]
    /\ muxRet' = [op |-> mux.op, errs |-> errCh,
                  calls |-> [i \in 1..Len(workers) |-> workers[i].calls],
                  results |-> [i \in 1..Len(workers) |-> workers[i].res],
                  pcs |-> [i \in 1..Len(workers) |-> workers[i].pc]]
    /\ UNCHANGED <<decVars, runVars, fwdVars, muxExporters, workers, errCh, onceStart,
                   startLog>>

NextMux ==
    \/ MuxCall
    \/ \E i \in 1..MaxExporters : WorkerCall(i)
    \/ \E i \in 1..MaxExporters : UnderlyingReturns(i)
    \/ \E i \in 1..MaxExporters : OnceUnblock(i)
    \/ \E i \in 1..MaxExporters : WorkerDone(i)
    \/ MuxReturn

SpecMux == InitMux /\ [][NextMux]_vars

(***************************************************************************)
(* Claims on the exporters, checked under SpecMux                          *)
(***************************************************************************)
\* the number of entries of a sequence equal to v
Count(seq, v) == Cardinality({k \in 1..Len(seq) : seq[k] = v})

\* C19: when a call of the MultiplexExporter returns, the operation has been
\* invoked exactly once on the exporter of each position, each of these calls
\* has returned, and the error returned joins exactly the errors these calls
\* returned: none when no call failed, and otherwise one per failing call,
\* whatever the other calls returned.
C19_MultiplexIsolation ==
    muxRet.op # "none" =>
        /\ DOMAIN muxRet.calls = 1..Len(muxExporters)
        /\ \A i \in 1..Len(muxExporters) :
              /\ muxRet.calls[i] = 1
              /\ muxRet.pcs[i] = "done"
        /\ \A e \in ExporterIds :
              Count(muxRet.errs, ExporterErr(e)) = Count(muxRet.results, ExporterErr(e))
        /\ Len(muxRet.errs) = Len(muxRet.results) - Count(muxRet.results, NoErr)
        /\ (muxRet.errs = <<>>) <=> (\A i \in 1..Len(muxExporters) : muxRet.results[i] = NoErr)

\* an upload through two exporters returned the error of the first alone, the
\* second having been called and having succeeded
C19_Witness ==
    /\ muxRet.op = "UploadTraces"
    /\ muxExporters = <<1, 2>>
    /\ muxRet.results = <<ExporterErr(1), NoErr>>
    /\ muxRet.errs = <<ExporterErr(1)>>
    /\ muxRet.calls = <<1, 1>>

\* C20: the underlying Start of a guarded exporter is begun at most once,
\* however many Start calls are made on it, at the same time or one after the
\* other, and every Start call that returns does so after that run has
\* completed and with its result.
C20_StartOnce ==
    /\ \A e \in DOMAIN startLog.begun :
          /\ startLog.begun[e] <= 1
          /\ Len(startLog.ran[e]) <= startLog.begun[e]
    /\ \A k \in 1..Len(startLog.returns) :
          LET r == startLog.returns[k]
          IN  /\ r.completed
              /\ Len(startLog.ran[r.exporter]) = 1
              /\ r.result = startLog.ran[r.exporter][1]

\* exporter 1 sits at both positions: of two concurrent Start calls one
\* waited for the run of the other, a third was made by a later call of the
\* MultiplexExporter, and all three returned the error of the single run
C20_Witness ==
    /\ muxExporters = <<1, 1>>
    /\ mux.n = 2
    /\ startLog.begun[1] = 1
    /\ startLog.ran[1] = <<ExporterErr(1)>>
    /\ Len(startLog.returns) >= 3
    /\ \E k \in 1..Len(startLog.returns) : startLog.returns[k].waited
    /\ \A k \in 1..Len(startLog.returns) : startLog.returns[k].result = ExporterErr(1)

=============================================================================
